---- MODULE Spec2Model ----
(***************************************************************************)
(* Playback-session controller of ncspot (src/src/spotify.rs), the event   *)
(* loop that drives it (src/src/application.rs) and the command handlers   *)
(* that call it (src/src/commands.rs).                                     *)
(*                                                                         *)
(* Threads: the UI thread (cursive loop, every controller call) and one    *)
(* runtime task per worker.  Time is in milliseconds.                      *)
(***************************************************************************)
EXTENDS Integers, Sequences, FiniteSets, TLC

(* ---------------------------------------------------------------- bounds *)
MaxWorkers == 2
MaxCmds == 2
MaxEvents == 1
MaxNow == 2
MaxPieces == 4
MaxArgs == 2
MaxRepeats == 3
MaxBatch == 2

(* ------------------------------------------------------------- constants *)
I32Max == 2147483647
U16Max == 65535

None == -1

Workers == 1..MaxWorkers
Positions == {0, 1}
Deltas == {-1, I32Max}
SeekArgs == {0}
Volumes == {0}

VARIABLES
    status,      \* Spotify.status: the PlayerEvent snapshot
    elapsed,     \* Spotify.elapsed: None or a duration
    since,       \* Spotify.since: None or a timestamp
    channel,     \* Spotify.channel: None or the inlet (named by its worker)
    chanLock,    \* the locks the UI thread holds between two of its steps
    volume,      \* Spotify.volume
    now,         \* SystemTime::now()
    overflowChecks, \* build profile: TRUE when arithmetic overflow panics
    uipc,        \* position of the UI thread
    cur,         \* the WorkerCommand the UI thread is sending
    after,       \* what the handler does once send_worker returns
    ev,          \* the PlayerEvent update_status is applying
    events,      \* the application event queue (EventManager)
    inbox,       \* per inlet: the commands queued in the mpsc channel
    rxAlive,     \* per inlet: the receiver still exists
    wpc,         \* per worker: position of its task
    wvol,        \* per worker: the mixer volume
    executed,    \* per live worker: the ids of the commands its run loop has executed
    sentLog,     \* per live inlet: the ids of the commands enqueued on it so far
    dropped,     \* ids of the commands send_worker dropped
    late,        \* ids of the commands enqueued after the worker left its run loop
    died,        \* per worker: number of SessionDied events emitted
    trackReset,  \* update_track ran after the last update_status
    nextId,      \* serial of the next controller command
    nextWorker,  \* id of the next worker to be spawned
    input,       \* parse: the text given to the parser
    command_inputs, \* parse: the command strings the first loop has cut
    result,      \* parse: the value returned
    fancy_ok,    \* parse: parse_duration accepts the text that is no integer
    parse_pc,    \* parse: position in the function
    repeat,      \* the queue's repeat setting
    modes,       \* history: the repeat settings since the command was parsed
    lastPlayer   \* history: the last Player event sent to the event queue

ctl == <<status, elapsed, since, channel, volume>>
vars == <<status, elapsed, since, channel, chanLock, volume, now, overflowChecks,
          uipc, cur, after, ev, events, inbox, rxAlive, wpc, wvol, executed,
          sentLog, dropped, late, died, trackReset, nextId, nextWorker,
          input, command_inputs, result, fancy_ok, parse_pc, repeat, modes,
          lastPlayer>>

\* the variables of a call of parse and of the Repeat handler, and the
\* history of the event queue
pvars == <<input, command_inputs, result, fancy_ok, parse_pc, repeat, modes,
           lastPlayer>>

(* ---------------------------------------------------------------- values *)
Playing(t) == [tag |-> "Playing", v |-> t]
Paused(p) == [tag |-> "Paused", v |-> p]
Stopped == [tag |-> "Stopped", v |-> 0]
FinishedTrack == [tag |-> "FinishedTrack", v |-> 0]
NoEvent == [tag |-> "none", v |-> 0]

Cmd(op, arg, id) == [op |-> op, arg |-> arg, id |-> id]
NoCmd == Cmd("none", 0, 0)

PlayerEv(w, e) == [kind |-> "Player", ev |-> e, w |-> w]
SessionDied(w) == [kind |-> "SessionDied", ev |-> NoEvent, w |-> w]

Alive == uipc \notin {"quit", "panicked"}

NoErr ==
    [kind |-> "none", cmd |-> <<>>, hint |-> "", arg |-> <<>>, accept |-> <<>>,
     optional |-> FALSE]

NoResult == [ok |-> FALSE, commands |-> <<>>, err |-> NoErr]

\* no call of parse is under way
ParserIdle ==
    /\ input = <<>>
    /\ command_inputs = <<>>
    /\ result = NoResult
    /\ fancy_ok = FALSE
    /\ parse_pc = "idle"
    /\ repeat = "None"
    /\ modes = <<"None">>
    /\ lastPlayer = NoEvent

(* ------------------------------------------------ reads of the controller *)
get_current_status == status

get_elapsed == elapsed

get_since == since

\* t.elapsed().unwrap() fails when the clock is before t
ProgressPanics == get_since # None /\ now < get_since

\* variant: the clock is added whether or not since is populated
get_current_progress_AddsClock ==
    (IF get_elapsed = None THEN 0 ELSE get_elapsed) + now

get_current_progress ==
    (IF get_elapsed = None THEN 0 ELSE get_elapsed)
    + (IF get_since = None THEN 0 ELSE now - get_since)

volume_get == volume

(* ------------------------------------------------------------------ Init *)
\* Spotify::new up to the struct literal: no worker yet, nothing playing
Init ==
    /\ status = Stopped
    /\ elapsed = None
    /\ since = None
    /\ channel = None
    /\ chanLock = {}
    /\ volume = U16Max
    /\ now = 0
    /\ overflowChecks \in BOOLEAN
    /\ uipc = "new"
    /\ cur = NoCmd
    /\ after = "idle"
    /\ ev = NoEvent
    /\ events = <<>>
    /\ inbox = [w \in Workers |-> <<>>]
    /\ rxAlive = [w \in Workers |-> FALSE]
    /\ wpc = [w \in Workers |-> "unborn"]
    /\ wvol = [w \in Workers |-> 0]
    /\ executed = [w \in Workers |-> <<>>]
    /\ sentLog = [w \in Workers |-> <<>>]
    /\ dropped = {}
    /\ late = {}
    /\ died = [w \in Workers |-> 0]
    /\ trackReset = FALSE
    /\ nextId = 1
    /\ nextWorker = 1
    /\ ParserIdle

(* ---------------------------------------------------------- start_worker *)
\* variant: the new worker is handed the queue of the previous inlet
start_worker_KeepsQueue ==
    /\ nextWorker <= MaxWorkers
    /\ channel' = nextWorker
    /\ inbox' = [inbox EXCEPT ![nextWorker] =
                     IF nextWorker > 1 THEN inbox[nextWorker - 1] ELSE <<>>]
    /\ rxAlive' = [rxAlive EXCEPT ![nextWorker] = TRUE]
    /\ wpc' = [wpc EXCEPT ![nextWorker] = "connecting"]
    /\ wvol' = [wvol EXCEPT ![nextWorker] = volume_get]
    /\ nextWorker' = nextWorker + 1

\* a fresh channel is created, its sender installed, and the worker task
\* spawned with the receiver and the controller's volume at that moment
start_worker ==
    /\ nextWorker <= MaxWorkers
    /\ channel' = nextWorker
    /\ inbox' = [inbox EXCEPT ![nextWorker] = <<>>]
    /\ rxAlive' = [rxAlive EXCEPT ![nextWorker] = TRUE]
    /\ wpc' = [wpc EXCEPT ![nextWorker] = "connecting"]
    /\ wvol' = [wvol EXCEPT ![nextWorker] = volume_get]
    /\ nextWorker' = nextWorker + 1

NewStartWorker ==
    /\ uipc = "new"
    /\ start_worker
    /\ uipc' = "new_block"
    /\ UNCHANGED <<status, elapsed, since, chanLock, volume, now, overflowChecks,
                   cur, after, ev, events, executed, sentLog, dropped, late, died,
                   nextId, trackReset,
                   pvars>>

\* block_on(user_rx) returns once the first worker has sent the user name or
\* has dropped the oneshot sender
NewReturn ==
    /\ uipc = "new_block"
    /\ wpc[1] # "connecting"
    /\ uipc' = "idle"
    /\ UNCHANGED <<status, elapsed, since, channel, chanLock, volume, now,
                   overflowChecks, cur, after, ev, events, inbox, rxAlive, wpc,
                   wvol, executed, sentLog, dropped, late, died, nextId,
                   nextWorker, trackReset,
                   pvars>>

(* ----------------------------------------------------------- send_worker *)
\* entry of send_worker: the read lock on the channel is taken and kept in
\* the local guard
send_worker(op, arg, cont) ==
    /\ uipc = "idle"
    /\ nextId <= MaxCmds
    /\ chanLock = {}
    /\ chanLock' = {"channel.read"}
    /\ cur' = Cmd(op, arg, nextId)
    /\ nextId' = nextId + 1
    /\ after' = cont
    /\ uipc' = "sw_locked"

\* variant: the command is put at the front of the queue
Enqueue_Front(q, c) == <<c>> \o q

\* UnboundedSender::send
Enqueue(q, c) == Append(q, c)

InRunLoop(w) == wpc[w] \in {"connecting", "running"}

\* the match on the guarded Option: send on Some, log on None or on a send error
SwSend ==
    /\ uipc = "sw_locked"
    /\ IF channel # None /\ rxAlive[channel]
       THEN /\ inbox' = [inbox EXCEPT ![channel] = Enqueue(@, cur)]
            /\ sentLog' = [sentLog EXCEPT ![channel] = Append(@, cur.id)]
            /\ late' = IF InRunLoop(channel) THEN late ELSE late \cup {cur.id}
            /\ UNCHANGED dropped
       ELSE /\ dropped' = dropped \cup {cur.id}
            /\ UNCHANGED <<inbox, sentLog, late>>
    /\ uipc' = "sw_sent"
    /\ UNCHANGED <<status, elapsed, since, channel, chanLock, volume, now,
                   overflowChecks, cur, after, ev, events, rxAlive, wpc, wvol,
                   executed, died, nextId, nextWorker, trackReset,
                   pvars>>

\* end of send_worker: the guard is dropped and the caller continues
SwReturn ==
    /\ uipc = "sw_sent"
    /\ chanLock' = chanLock \ {"channel.read"}
    /\ uipc' = after
    /\ cur' = NoCmd
    /\ after' = "idle"
    /\ UNCHANGED <<status, elapsed, since, channel, volume, now, overflowChecks,
                   ev, events, inbox, rxAlive, wpc, wvol, executed, sentLog,
                   dropped, late, died, nextId, nextWorker, trackReset,
                   pvars>>

(* ------------------------------------------------- controller operations *)
callFrame == <<status, elapsed, since, channel, volume, now, overflowChecks, ev,
               events, inbox, rxAlive, wpc, wvol, executed, sentLog, dropped,
               late, died, nextWorker, trackReset,
                   pvars>>

load == send_worker("Load", 0, "idle") /\ UNCHANGED callFrame

play == send_worker("Play", 0, "idle") /\ UNCHANGED callFrame

pause == send_worker("Pause", 0, "idle") /\ UNCHANGED callFrame

\* variant: stop also forgets the recorded position
stop_ResetsPosition ==
    /\ send_worker("Stop", 0, "idle")
    /\ elapsed' = None
    /\ UNCHANGED <<status, since, channel, volume, now, overflowChecks, ev, events,
                   inbox, rxAlive, wpc, wvol, executed, sentLog, dropped, late,
                   died, nextWorker, trackReset, pvars>>

stop == send_worker("Stop", 0, "idle") /\ UNCHANGED callFrame

seek(position_ms) == send_worker("Seek", position_ms, "idle") /\ UNCHANGED callFrame

preload == send_worker("Preload", 0, "idle") /\ UNCHANGED callFrame

shutdown(cont) == send_worker("Shutdown", 0, cont) /\ UNCHANGED callFrame

\* variant: a stopped player is started
toggleplayback_StoppedPlays ==
    IF get_current_status.tag = "Playing" THEN pause ELSE play

toggleplayback ==
    IF get_current_status.tag = "Playing" THEN pause
    ELSE IF get_current_status.tag = "Paused" THEN play
    ELSE uipc = "idle" /\ UNCHANGED vars

\* variant: the command is sent but the controller's volume is not stored
set_volume_SendOnly(new_volume) ==
    /\ send_worker("SetVolume", new_volume, "idle")
    /\ UNCHANGED <<status, elapsed, since, channel, volume, now, overflowChecks,
                   ev, events, inbox, rxAlive, wpc, wvol, executed, sentLog,
                   dropped, late, died, nextWorker, trackReset,
                   pvars>>

set_volume(new_volume) ==
    /\ volume' = new_volume
    /\ send_worker("SetVolume", new_volume, "idle")
    /\ UNCHANGED <<status, elapsed, since, channel, now, overflowChecks, ev,
                   events, inbox, rxAlive, wpc, wvol, executed, sentLog, dropped,
                   late, died, nextWorker, trackReset,
                   pvars>>

\* i32 addition of the progress and the delta; progress is non-negative, so
\* only the upper end can overflow
AddOverflows(p, delta) == delta > 0 /\ p > I32Max - delta

\* the wrapped sum of an overflowing addition, p + delta - 2^32
WrappedSum(p, delta) == (p - I32Max - 1) + (delta - I32Max - 1)

SeekTarget(p, delta) ==
    LET new == IF AddOverflows(p, delta) THEN WrappedSum(p, delta) ELSE p + delta
    IN  IF new > 0 THEN new ELSE 0

SeekRelativePanics(delta) ==
    \/ ProgressPanics
    \/ /\ ~ProgressPanics
       /\ overflowChecks
       /\ AddOverflows(get_current_progress, delta)

seek_relative(delta) ==
    /\ uipc = "idle"
    /\ nextId <= MaxCmds
    /\ IF SeekRelativePanics(delta)
       THEN /\ uipc' = "panicked"
            /\ UNCHANGED <<status, elapsed, since, channel, chanLock, volume,
                           now, overflowChecks, cur, after, ev, events, inbox,
                           rxAlive, wpc, wvol, executed, sentLog, dropped, late,
                           died, nextId, nextWorker, trackReset,
                   pvars>>
       ELSE seek(SeekTarget(get_current_progress, delta))

\* variant: only the elapsed duration is cleared
update_track_KeepsSince ==
    /\ uipc = "idle"
    /\ elapsed' = None
    /\ trackReset' = TRUE
    /\ UNCHANGED <<status, since, channel, chanLock, volume, now, overflowChecks,
                   uipc, cur, after, ev, events, inbox, rxAlive, wpc, wvol,
                   executed, sentLog, dropped, late, died, nextId, nextWorker,
                   pvars>>

update_track ==
    /\ uipc = "idle"
    /\ elapsed' = None
    /\ since' = None
    /\ trackReset' = TRUE
    /\ UNCHANGED <<status, channel, chanLock, volume, now, overflowChecks, uipc,
                   cur, after, ev, events, inbox, rxAlive, wpc, wvol, executed,
                   sentLog, dropped, late, died, nextId, nextWorker,
                   pvars>>

(* ------------------------------------------------------ command handlers *)
Reconnect == shutdown("idle")

Logout == shutdown("logout_rm")

\* after shutdown(): remove_file(..).unwrap() and then s.quit()
LogoutFinish ==
    /\ uipc = "logout_rm"
    /\ uipc' \in {"quit", "panicked"}
    /\ UNCHANGED <<status, elapsed, since, channel, chanLock, volume, now,
                   overflowChecks, cur, after, ev, events, inbox, rxAlive, wpc,
                   wvol, executed, sentLog, dropped, late, died, nextId,
                   nextWorker, trackReset,
                   pvars>>

Quit ==
    /\ uipc = "idle"
    /\ uipc' = "quit"
    /\ UNCHANGED <<status, elapsed, since, channel, chanLock, volume, now,
                   overflowChecks, cur, after, ev, events, inbox, rxAlive, wpc,
                   wvol, executed, sentLog, dropped, late, died, nextId,
                   nextWorker, trackReset,
                   pvars>>

\* ((u16::max_value() as f64) * 1.0 / 100.0) as u16
VOLUME_PERCENT == U16Max \div 100

\* VOLUME_PERCENT * amount in u16
MulOverflows(amount) == VOLUME_PERCENT * amount > U16Max

VolumeStep(amount) == (VOLUME_PERCENT * amount) % (U16Max + 1)

saturating_add(v, d) == IF v + d > U16Max THEN U16Max ELSE v + d

saturating_sub(v, d) == IF v - d < 0 THEN 0 ELSE v - d

HandlerPanics ==
    /\ uipc' = "panicked"
    /\ UNCHANGED <<status, elapsed, since, channel, chanLock, volume, now,
                   overflowChecks, cur, after, ev, events, inbox, rxAlive, wpc,
                   wvol, executed, sentLog, dropped, late, died, nextId,
                   nextWorker, trackReset,
                   pvars>>

\* Command::VolumeUp(amount)
VolumeUp(amount) ==
    /\ uipc = "idle"
    /\ nextId <= MaxCmds
    /\ IF overflowChecks /\ MulOverflows(amount)
       THEN HandlerPanics
       ELSE set_volume(saturating_add(volume_get, VolumeStep(amount)))

\* Command::VolumeDown(amount)
VolumeDown(amount) ==
    /\ uipc = "idle"
    /\ nextId <= MaxCmds
    /\ IF overflowChecks /\ MulOverflows(amount)
       THEN HandlerPanics
       ELSE set_volume(saturating_sub(volume_get, VolumeStep(amount)))

(* ------------------------------------------------------------ event loop *)
\* variant: the Playing arm stamps the time of handling, not the event's
UsFirst_StampsNow(new_status) ==
    IF new_status.tag = "Paused"
    THEN elapsed' = new_status.v /\ UNCHANGED since
    ELSE IF new_status.tag = "Playing"
    THEN since' = now /\ UNCHANGED elapsed
    ELSE elapsed' = None /\ UNCHANGED since

\* update_status, first setter of the matched arm
UsFirst(new_status) ==
    IF new_status.tag = "Paused"
    THEN elapsed' = new_status.v /\ UNCHANGED since
    ELSE IF new_status.tag = "Playing"
    THEN since' = new_status.v /\ UNCHANGED elapsed
    ELSE elapsed' = None /\ UNCHANGED since

\* variant: the Paused arm forgets to clear since
UsSecond_NoClear(new_status) ==
    IF new_status.tag = "Paused"
    THEN UNCHANGED <<elapsed, since>>
    ELSE IF new_status.tag = "Playing"
    THEN elapsed' = None /\ UNCHANGED since
    ELSE since' = None /\ UNCHANGED elapsed

\* update_status, second setter of the matched arm
UsSecond(new_status) ==
    IF new_status.tag = "Paused"
    THEN since' = None /\ UNCHANGED elapsed
    ELSE IF new_status.tag = "Playing"
    THEN elapsed' = None /\ UNCHANGED since
    ELSE since' = None /\ UNCHANGED elapsed

\* Event::Player(state): the event is taken from the queue and update_status
\* runs up to the end of its first setter
HandlePlayer ==
    /\ uipc = "idle"
    /\ events # <<>>
    /\ Head(events).kind = "Player"
    /\ ev' = Head(events).ev
    /\ events' = Tail(events)
    /\ UsFirst(Head(events).ev)
    /\ uipc' = "us_second"
    /\ UNCHANGED <<status, channel, chanLock, volume, now, overflowChecks, cur,
                   after, inbox, rxAlive, wpc, wvol, executed, sentLog, dropped,
                   late, died, nextId, nextWorker, trackReset,
                   pvars>>

update_status_second ==
    /\ uipc = "us_second"
    /\ UsSecond(ev)
    /\ uipc' = "us_status"
    /\ UNCHANGED <<status, channel, chanLock, volume, now, overflowChecks, cur,
                   after, ev, events, inbox, rxAlive, wpc, wvol, executed,
                   sentLog, dropped, late, died, nextId, nextWorker, trackReset,
                   pvars>>

\* variant: the loop calls queue.next(false) after every Player event
update_status_write_NextAlways ==
    /\ uipc = "us_status"
    /\ status' = ev
    /\ trackReset' = FALSE
    /\ ev' = NoEvent
    /\ uipc' = "queue_next"
    /\ UNCHANGED <<elapsed, since, channel, chanLock, volume, now,
                   overflowChecks, cur, after, events, inbox, rxAlive, wpc, wvol,
                   executed, sentLog, dropped, late, died, nextId, nextWorker,
                   pvars>>

\* the status write that ends update_status; the loop then goes on to
\* queue.next(false) when the event is FinishedTrack
update_status_write ==
    /\ uipc = "us_status"
    /\ status' = ev
    /\ trackReset' = FALSE
    /\ ev' = NoEvent
    /\ uipc' = IF ev = FinishedTrack THEN "queue_next" ELSE "idle"
    /\ UNCHANGED <<elapsed, since, channel, chanLock, volume, now,
                   overflowChecks, cur, after, events, inbox, rxAlive, wpc, wvol,
                   executed, sentLog, dropped, late, died, nextId, nextWorker,
                   pvars>>

\* self.queue.next(false): the call returns to the loop; what the queue asks
\* of the controller for the next track (load, update_track, stop) are the
\* calls of the system, enabled once the loop is idle again
queue_next ==
    /\ uipc = "queue_next"
    /\ uipc' = "idle"
    /\ UNCHANGED <<status, elapsed, since, channel, chanLock, volume, now,
                   overflowChecks, cur, after, ev, events, inbox, rxAlive, wpc,
                   wvol, executed, sentLog, dropped, late, died, nextId,
                   nextWorker, trackReset, pvars>>

\* Event::SessionDied => start_worker(None)
HandleSessionDied ==
    /\ uipc = "idle"
    /\ events # <<>>
    /\ Head(events).kind = "SessionDied"
    /\ events' = Tail(events)
    /\ start_worker
    /\ UNCHANGED <<status, elapsed, since, chanLock, volume, now, overflowChecks,
                   uipc, cur, after, ev, executed, sentLog, dropped, late, died,
                   nextId, trackReset,
                   pvars>>

(* ---------------------------------------------------------------- worker *)
wframe == <<status, elapsed, since, chanLock, volume, now, overflowChecks, uipc,
            cur, after, ev, dropped, late, nextId, nextWorker, trackReset,
                   pvars>>

\* create_session succeeded; mixer, backend and player are built and the
\* worker enters its run loop
WConnectOk(w) ==
    /\ Alive
    /\ wpc[w] = "connecting"
    /\ wpc' = [wpc EXCEPT ![w] = "running"]
    /\ UNCHANGED <<channel, events, inbox, rxAlive, wvol, executed, died, sentLog>>
    /\ UNCHANGED wframe

\* one of the expect() calls before the run loop fails: the task unwinds,
\* dropping the receiver, and nothing after it runs
WConnectFail(w) ==
    /\ Alive
    /\ wpc[w] = "connecting"
    /\ wpc' = [wpc EXCEPT ![w] = "panicked"]
    /\ rxAlive' = [rxAlive EXCEPT ![w] = FALSE]
    /\ inbox' = [inbox EXCEPT ![w] = <<>>]
    /\ sentLog' = [sentLog EXCEPT ![w] = <<>>]
    /\ UNCHANGED <<channel, events, wvol, executed, died>>
    /\ UNCHANGED wframe

\* run loop: the next command of the inlet is executed
WExec(w) ==
    /\ Alive
    /\ wpc[w] = "running"
    /\ inbox[w] # <<>>
    /\ LET c == Head(inbox[w])
       IN  /\ inbox' = [inbox EXCEPT ![w] = Tail(@)]
           /\ executed' = [executed EXCEPT ![w] = Append(@, c.id)]
           /\ wvol' = IF c.op = "SetVolume" THEN [wvol EXCEPT ![w] = c.arg] ELSE wvol
           /\ wpc' = IF c.op = "Shutdown" THEN [wpc EXCEPT ![w] = "exited"] ELSE wpc
    /\ UNCHANGED <<channel, events, rxAlive, died, sentLog>>
    /\ UNCHANGED wframe

\* run loop: the engine reports a fatal session fault
WFault(w) ==
    /\ Alive
    /\ wpc[w] = "running"
    /\ w < MaxWorkers
    /\ wpc' = [wpc EXCEPT ![w] = "exited"]
    /\ UNCHANGED <<channel, events, inbox, rxAlive, wvol, executed, died, sentLog>>
    /\ UNCHANGED wframe

\* what the engine can report at this moment
EngineEvents ==
    {Playing(now - p) : p \in {q \in Positions : q <= now}}
    \cup {Paused(p) : p \in Positions} \cup {Stopped, FinishedTrack}

\* the engine events the calls specification draws from
FewEvents == {Paused(1), Playing(0)}

\* run loop: an engine event is forwarded to the application's event queue
WForward(w, E, max) ==
    /\ Alive
    /\ wpc[w] = "running"
    /\ Len(events) < max
    /\ \E e \in E :
        /\ events' = Append(events, PlayerEv(w, e))
        /\ lastPlayer' = e
    /\ UNCHANGED <<channel, inbox, rxAlive, wpc, wvol, executed, died, sentLog>>
    /\ UNCHANGED <<status, elapsed, since, chanLock, volume, now, overflowChecks,
                   uipc, cur, after, ev, dropped, late, nextId, nextWorker,
                   trackReset, input, command_inputs, result, fancy_ok, parse_pc,
                   repeat, modes>>

\* variant: the write does not wait for readers
WriteLockFree_Always == TRUE

\* channel.write() waits while a reader holds the lock
WriteLockFree == "channel.read" \notin chanLock

\* variant: the inlet is left installed
WClear_NoClear(w) ==
    /\ Alive
    /\ wpc[w] = "exited"
    /\ WriteLockFree
    /\ wpc' = [wpc EXCEPT ![w] = "cleared"]
    /\ UNCHANGED <<channel, events, inbox, rxAlive, wvol, executed, died, sentLog>>
    /\ UNCHANGED wframe

\* after run_loop: the controller's inlet is set to None
WClear(w) ==
    /\ Alive
    /\ wpc[w] = "exited"
    /\ WriteLockFree
    /\ channel' = None
    /\ wpc' = [wpc EXCEPT ![w] = "cleared"]
    /\ UNCHANGED <<events, inbox, rxAlive, wvol, executed, died, sentLog>>
    /\ UNCHANGED wframe

\* variant: SessionDied is emitted before the inlet is cleared
WSendDied_BeforeClear(w) ==
    /\ Alive
    /\ wpc[w] = "exited"
    /\ died[w] = 0
    /\ events' = Append(events, SessionDied(w))
    /\ died' = [died EXCEPT ![w] = @ + 1]
    /\ UNCHANGED <<channel, inbox, rxAlive, wpc, wvol, executed, sentLog>>
    /\ UNCHANGED wframe

\* events.send(Event::SessionDied)
WSendDied(w) ==
    /\ Alive
    /\ wpc[w] = "cleared"
    /\ events' = Append(events, SessionDied(w))
    /\ died' = [died EXCEPT ![w] = @ + 1]
    /\ wpc' = [wpc EXCEPT ![w] = "sent"]
    /\ UNCHANGED <<channel, inbox, rxAlive, wvol, executed, sentLog>>
    /\ UNCHANGED wframe

\* the worker function returns: its locals, the receiver among them, are
\* dropped and the task ends
WReturn(w) ==
    /\ Alive
    /\ wpc[w] = "sent"
    /\ wpc' = [wpc EXCEPT ![w] = "done"]
    /\ rxAlive' = [rxAlive EXCEPT ![w] = FALSE]
    /\ inbox' = [inbox EXCEPT ![w] = <<>>]
    /\ executed' = [executed EXCEPT ![w] = <<>>]
    /\ sentLog' = [sentLog EXCEPT ![w] = <<>>]
    /\ UNCHANGED <<channel, events, wvol, died>>
    /\ UNCHANGED wframe

(* ----------------------------------------------------------------- clock *)
Tick ==
    /\ Alive
    /\ now < MaxNow
    /\ now' = now + 1
    /\ UNCHANGED <<status, elapsed, since, channel, chanLock, volume,
                   overflowChecks, uipc, cur, after, ev, events, inbox, rxAlive,
                   wpc, wvol, executed, sentLog, dropped, late, died, nextId,
                   nextWorker, trackReset,
                   pvars>>

\* the system clock is set back
ClockBack ==
    /\ Alive
    /\ now > 0
    /\ now' = now - 1
    /\ UNCHANGED <<status, elapsed, since, channel, chanLock, volume,
                   overflowChecks, uipc, cur, after, ev, events, inbox, rxAlive,
                   wpc, wvol, executed, sentLog, dropped, late, died, nextId,
                   nextWorker, trackReset,
                   pvars>>

(* ------------------------------------------------- worker and inlet system *)
\* construction, the calls that only send, the restart handler and the
\* worker tasks; the position bookkeeping keeps its initial value here
Next ==
    \/ NewStartWorker
    \/ NewReturn
    \/ load
    \/ play
    \/ pause
    \/ stop
    \/ \E p \in SeekArgs : seek(p)
    \/ \E v \in Volumes : set_volume(v)
    \/ preload
    \/ Reconnect
    \/ Logout
    \/ LogoutFinish
    \/ Quit
    \/ SwSend
    \/ SwReturn
    \/ HandleSessionDied
    \/ \E w \in Workers : WConnectOk(w)
    \/ \E w \in Workers : WConnectFail(w)
    \/ \E w \in Workers : WExec(w)
    \/ \E w \in Workers : WFault(w)
    \/ \E w \in Workers : WClear(w)
    \/ \E w \in Workers : WSendDied(w)
    \/ \E w \in Workers : WReturn(w)

Spec == Init /\ [][Next]_vars

\* the steps the UI thread takes without user action: construction, the
\* event loop and the rest of a call already begun
UIStep ==
    \/ NewStartWorker
    \/ NewReturn
    \/ SwSend
    \/ SwReturn
    \/ LogoutFinish
    \/ HandlePlayer
    \/ update_status_second
    \/ update_status_write
    \/ queue_next
    \/ HandleSessionDied

\* the steps the runtime takes for a worker task without an outside cause
WStep(w) ==
    \/ WConnectOk(w)
    \/ WConnectFail(w)
    \/ WExec(w)
    \/ WClear(w)
    \/ WSendDied(w)
    \/ WReturn(w)

\* the UI loop keeps polling and the runtime keeps scheduling its tasks
FairSpec ==
    /\ Spec
    /\ WF_vars(UIStep)
    /\ \A w \in Workers : WF_vars(WStep(w))

(* ------------------------------------------- position-bookkeeping system *)
\* the controller once constructed, its first worker in the run loop
InitPos ==
    /\ status = Stopped
    /\ elapsed = None
    /\ since = None
    /\ channel = 1
    /\ chanLock = {}
    /\ volume = U16Max
    /\ now \in 0..MaxNow
    /\ overflowChecks \in BOOLEAN
    /\ uipc = "idle"
    /\ cur = NoCmd
    /\ after = "idle"
    /\ ev = NoEvent
    /\ events = <<>>
    /\ inbox = [w \in Workers |-> <<>>]
    /\ rxAlive = [w \in Workers |-> w = 1]
    /\ wpc = [w \in Workers |-> IF w = 1 THEN "running" ELSE "unborn"]
    /\ wvol = [w \in Workers |-> IF w = 1 THEN U16Max ELSE 0]
    /\ executed = [w \in Workers |-> <<>>]
    /\ sentLog = [w \in Workers |-> <<>>]
    /\ dropped = {}
    /\ late = {}
    /\ died = [w \in Workers |-> 0]
    /\ trackReset = FALSE
    /\ nextId = 1
    /\ nextWorker = 2
    /\ ParserIdle

NextPos ==
    \/ HandlePlayer
    \/ update_status_second
    \/ update_status_write
    \/ queue_next
    \/ update_track
    \/ WForward(1, EngineEvents, MaxEvents)
    \/ Tick
    \/ ClockBack

SpecPos == InitPos /\ [][NextPos]_vars

(* ------------------------------------------------------- calls system *)
\* every controller call against a running worker, with the status and the
\* position the event loop has recorded
NextCalls ==
    \/ load
    \/ play
    \/ pause
    \/ stop
    \/ \E p \in SeekArgs : seek(p)
    \/ \E d \in Deltas : seek_relative(d)
    \/ \E v \in Volumes : set_volume(v)
    \/ preload
    \/ toggleplayback
    \/ Reconnect
    \/ SwSend
    \/ SwReturn
    \/ HandlePlayer
    \/ update_status_second
    \/ update_status_write
    \/ WForward(1, FewEvents, MaxEvents)
    \/ WExec(1)

SpecCalls == InitPos /\ [][NextCalls]_vars

(* --------------------------------------------------------- volume system *)
\* the volume amounts and the volumes the handlers are exercised on
Amounts == {0, 1, 100, 101, U16Max}

StartVolumes == {0, 1, VOLUME_PERCENT, 32768, U16Max - VOLUME_PERCENT, U16Max}

\* the controller once constructed, its first worker in the run loop, at
\* any volume earlier calls may have left
InitVol ==
    /\ status = Stopped
    /\ elapsed = None
    /\ since = None
    /\ channel = 1
    /\ chanLock = {}
    /\ volume \in StartVolumes
    /\ now = 0
    /\ overflowChecks \in BOOLEAN
    /\ uipc = "idle"
    /\ cur = NoCmd
    /\ after = "idle"
    /\ ev = NoEvent
    /\ events = <<>>
    /\ inbox = [w \in Workers |-> <<>>]
    /\ rxAlive = [w \in Workers |-> w = 1]
    /\ wpc = [w \in Workers |-> IF w = 1 THEN "running" ELSE "unborn"]
    /\ wvol = [w \in Workers |-> IF w = 1 THEN volume ELSE 0]
    /\ executed = [w \in Workers |-> <<>>]
    /\ sentLog = [w \in Workers |-> <<>>]
    /\ dropped = {}
    /\ late = {}
    /\ died = [w \in Workers |-> 0]
    /\ trackReset = FALSE
    /\ nextId = 1
    /\ nextWorker = 2
    /\ ParserIdle

NextVol ==
    \/ \E a \in Amounts : VolumeUp(a)
    \/ \E a \in Amounts : VolumeDown(a)
    \/ SwSend
    \/ SwReturn
    \/ WExec(1)

SpecVol == InitVol /\ [][NextVol]_vars

(* ---------------------------------------------------------------- parser *)
\* text is a sequence of characters

\* the words of the match (command.rs:231-557): command words and
\* the argument words the arms compare against; n7 .. n4294967296 are decimal
\* texts, the large ones around the ends of the i32 and the u32 range
W ==
    [stop |-> <<"s", "t", "o", "p">>,
     pause |-> <<"p", "a", "u", "s", "e">>,
     seek |-> <<"s", "e", "e", "k">>,
     exec |-> <<"e", "x", "e", "c">>,
     \* a word that is no command and no argument word
     zz |-> <<"z", "z">>,
     quit |-> <<"q", "u", "i", "t">>,
     q |-> <<"q">>,
     x |-> <<"x">>,
     playpause |-> <<"p", "l", "a", "y", "p", "a", "u", "s", "e">>,
     toggleplay |-> <<"t", "o", "g", "g", "l", "e", "p", "l", "a", "y">>,
     toggleplayback |-> <<"t", "o", "g", "g", "l", "e", "p", "l", "a", "y", "b", "a", "c", "k">>,
     previous |-> <<"p", "r", "e", "v", "i", "o", "u", "s">>,
     next |-> <<"n", "e", "x", "t">>,
     clear |-> <<"c", "l", "e", "a", "r">>,
     queue |-> <<"q", "u", "e", "u", "e">>,
     playnext |-> <<"p", "l", "a", "y", "n", "e", "x", "t">>,
     play |-> <<"p", "l", "a", "y">>,
     update |-> <<"u", "p", "d", "a", "t", "e">>,
     focus |-> <<"f", "o", "c", "u", "s">>,
     volup |-> <<"v", "o", "l", "u", "p">>,
     voldown |-> <<"v", "o", "l", "d", "o", "w", "n">>,
     repeat |-> <<"r", "e", "p", "e", "a", "t">>,
     loop |-> <<"l", "o", "o", "p">>,
     shuffle |-> <<"s", "h", "u", "f", "f", "l", "e">>,
     back |-> <<"b", "a", "c", "k">>,
     open |-> <<"o", "p", "e", "n">>,
     goto |-> <<"g", "o", "t", "o">>,
     move |-> <<"m", "o", "v", "e">>,
     shift |-> <<"s", "h", "i", "f", "t">>,
     search |-> <<"s", "e", "a", "r", "c", "h">>,
     jump |-> <<"j", "u", "m", "p">>,
     jumpnext |-> <<"j", "u", "m", "p", "n", "e", "x", "t">>,
     jumpprevious |-> <<"j", "u", "m", "p", "p", "r", "e", "v", "i", "o", "u", "s">>,
     help |-> <<"h", "e", "l", "p">>,
     noop |-> <<"n", "o", "o", "p">>,
     sort |-> <<"s", "o", "r", "t">>,
     logout |-> <<"l", "o", "g", "o", "u", "t">>,
     similar |-> <<"s", "i", "m", "i", "l", "a", "r">>,
     redraw |-> <<"r", "e", "d", "r", "a", "w">>,
     reconnect |-> <<"r", "e", "c", "o", "n", "n", "e", "c", "t">>,
     list |-> <<"l", "i", "s", "t">>,
     playlist |-> <<"p", "l", "a", "y", "l", "i", "s", "t">>,
     track |-> <<"t", "r", "a", "c", "k">>,
     once |-> <<"o", "n", "c", "e">>,
     single |-> <<"s", "i", "n", "g", "l", "e">>,
     none |-> <<"n", "o", "n", "e">>,
     off |-> <<"o", "f", "f">>,
     on |-> <<"o", "n">>,
     selected |-> <<"s", "e", "l", "e", "c", "t", "e", "d">>,
     current |-> <<"c", "u", "r", "r", "e", "n", "t">>,
     album |-> <<"a", "l", "b", "u", "m">>,
     artist |-> <<"a", "r", "t", "i", "s", "t">>,
     playing |-> <<"p", "l", "a", "y", "i", "n", "g">>,
     top |-> <<"t", "o", "p">>,
     bottom |-> <<"b", "o", "t", "t", "o", "m">>,
     leftmost |-> <<"l", "e", "f", "t", "m", "o", "s", "t">>,
     rightmost |-> <<"r", "i", "g", "h", "t", "m", "o", "s", "t">>,
     pageup |-> <<"p", "a", "g", "e", "u", "p">>,
     pagedown |-> <<"p", "a", "g", "e", "d", "o", "w", "n">>,
     pageleft |-> <<"p", "a", "g", "e", "l", "e", "f", "t">>,
     pageright |-> <<"p", "a", "g", "e", "r", "i", "g", "h", "t">>,
     up |-> <<"u", "p">>,
     down |-> <<"d", "o", "w", "n">>,
     left |-> <<"l", "e", "f", "t">>,
     right |-> <<"r", "i", "g", "h", "t">>,
     title |-> <<"t", "i", "t", "l", "e">>,
     duration |-> <<"d", "u", "r", "a", "t", "i", "o", "n">>,
     added |-> <<"a", "d", "d", "e", "d">>,
     a |-> <<"a">>,
     asc |-> <<"a", "s", "c">>,
     ascending |-> <<"a", "s", "c", "e", "n", "d", "i", "n", "g">>,
     d |-> <<"d">>,
     desc |-> <<"d", "e", "s", "c">>,
     descending |-> <<"d", "e", "s", "c", "e", "n", "d", "i", "n", "g">>,
     n7 |-> <<"7">>,
     n2147483647 |-> <<"2", "1", "4", "7", "4", "8", "3", "6", "4", "7">>,
     n2147483648 |-> <<"2", "1", "4", "7", "4", "8", "3", "6", "4", "8">>,
     n4294967295 |-> <<"4", "2", "9", "4", "9", "6", "7", "2", "9", "5">>,
     n4294967296 |-> <<"4", "2", "9", "4", "9", "6", "7", "2", "9", "6">>]

\* the pieces of text the inputs are made of
Pieces ==
    {W.stop, W.pause, W.seek \o <<" ">>, W.exec \o <<" ">>, W.zz,
     <<"+">>, <<"-">>, <<" ">>, <<"7">>, <<";">>}

RECURSIVE Flatten(_)
Flatten(ss) == IF ss = <<>> THEN <<>> ELSE Head(ss) \o Flatten(Tail(ss))

Inputs == {Flatten(ps) : ps \in UNION {[1..n -> Pieces] : n \in 0..MaxPieces}}

\* the commands and the errors parse can return: a Command is a record
\* whose unused fields hold a filler
Command(n) ==
    [name |-> n, dir |-> "-", opt |-> "-", ms |-> 0, hi |-> 0, lo |-> 0, text |-> <<>>]

TogglePlay == Command("TogglePlay")

Stop_ == Command("Stop")

Focus(t) == [Command("Focus") EXCEPT !.text = t]

\* Seek(SeekDirection::Relative(ms)), ms an i32
SeekRelative(ms) == [Command("Seek") EXCEPT !.dir = "Relative", !.ms = ms]

\* Seek(SeekDirection::Absolute(u)), u a u32 kept as two 16-bit halves
SeekAbsolute(u) == [Command("Seek") EXCEPT !.dir = "Absolute", !.hi = u.hi, !.lo = u.lo]

VolumeUp_(n) == [Command("VolumeUp") EXCEPT !.ms = n]

VolumeDown_(n) == [Command("VolumeDown") EXCEPT !.ms = n]

\* Repeat(Option<RepeatSetting>): opt is "Some" or "None", dir the setting
Repeat(opt, m) == [Command("Repeat") EXCEPT !.opt = opt, !.dir = m]


\* Shuffle(Option<bool>)
Shuffle(opt, b) == [Command("Shuffle") EXCEPT !.opt = opt, !.dir = b]


Open(m) == [Command("Open") EXCEPT !.dir = m]

Goto(m) == [Command("Goto") EXCEPT !.dir = m]

\* Move(MoveMode, MoveAmount): opt is the kind of amount, ms its value
Move(m, kind, n) == [Command("Move") EXCEPT !.dir = m, !.opt = kind, !.ms = n]

\* Shift(ShiftMode, Option<i32>)
Shift(m, opt, n) == [Command("Shift") EXCEPT !.dir = m, !.opt = opt, !.ms = n]


Search(t) == [Command("Search") EXCEPT !.text = t]

\* Jump(JumpMode)
JumpQuery(t) == [Command("Jump") EXCEPT !.dir = "Query", !.text = t]

JumpNext == [Command("Jump") EXCEPT !.dir = "Next"]

JumpPrevious == [Command("Jump") EXCEPT !.dir = "Previous"]

\* Sort(SortKey, SortDirection): dir is the key, opt the direction
Sort(k, d) == [Command("Sort") EXCEPT !.dir = k, !.opt = d]

ShowRecommendations(m) == [Command("ShowRecommendations") EXCEPT !.dir = m]

Execute(t) == [Command("Execute") EXCEPT !.text = t]

NoSuchCommand(c) == [NoErr EXCEPT !.kind = "NoSuchCommand", !.cmd = c]

InsufficientArgs(c, h) == [NoErr EXCEPT !.kind = "InsufficientArgs", !.cmd = c, !.hint = h]

BadEnumArg(a, acc, o) ==
    [NoErr EXCEPT !.kind = "BadEnumArg", !.arg = a, !.accept = acc, !.optional = o]

ArgParseError(a) == [NoErr EXCEPT !.kind = "ArgParseError", !.arg = a]

\* variant: the second ';' of a pair starts a new command string
TokenizeChar_PairSplits(st, c) ==
    LET parse_state == st[1]
        cis == st[2]
        command_idx == Len(cis)
        is_separator == c = ";"
    IN  IF parse_state = "Normal" /\ is_separator
        THEN <<"SeparatorEncountered", cis>>
        ELSE IF parse_state = "Normal"
        THEN <<"Normal", [cis EXCEPT ![command_idx] = Append(@, c)]>>
        ELSE <<"Normal", Append(cis, <<c>>)>>

\* one iteration of the first loop of parse on the pair <<parse_state,
\* command_inputs>>; command_idx is the index of the last command string
TokenizeChar(st, c) ==
    LET parse_state == st[1]
        cis == st[2]
        command_idx == Len(cis)
        is_separator == c = ";"
    IN  IF parse_state = "Normal" /\ is_separator
        THEN <<"SeparatorEncountered", cis>>
        ELSE IF parse_state = "Normal"
        THEN <<"Normal", [cis EXCEPT ![command_idx] = Append(@, c)]>>
        ELSE IF is_separator
        THEN <<"Normal", [cis EXCEPT ![command_idx] = Append(@, c)]>>
        ELSE <<"Normal", Append(cis, <<c>>)>>

RECURSIVE TokenizeFrom(_, _, _)
TokenizeFrom(s, i, st) ==
    IF i > Len(s) THEN st ELSE TokenizeFrom(s, i + 1, TokenizeChar(st, s[i]))

\* the first loop of parse, from vec!["".to_string()] in state Normal
Tokenize(s) == TokenizeFrom(s, 1, <<"Normal", << <<>> >> >>)[2]

RECURSIVE SplitFrom(_, _, _, _)
SplitFrom(s, i, words, w) ==
    IF i > Len(s)
    THEN IF w = <<>> THEN words ELSE Append(words, w)
    ELSE IF s[i] = " "
    THEN SplitFrom(s, i + 1, IF w = <<>> THEN words ELSE Append(words, w), <<>>)
    ELSE SplitFrom(s, i + 1, words, Append(w, s[i]))

\* str::split_whitespace
split_whitespace(s) == SplitFrom(s, 1, <<>>, <<>>)

\* args.join(" ")
RECURSIVE join(_)
join(args) ==
    IF args = <<>> THEN <<>>
    ELSE IF Len(args) = 1 THEN args[1]
    ELSE args[1] \o <<" ">> \o join(Tail(args))

RECURSIVE trim_start(_)
trim_start(s) == IF s # <<>> /\ Head(s) = " " THEN trim_start(Tail(s)) ELSE s

RECURSIVE trim_end(_)
trim_end(s) ==
    IF s # <<>> /\ s[Len(s)] = " " THEN trim_end(SubSeq(s, 1, Len(s) - 1)) ELSE s

\* str::trim
trim(s) == trim_end(trim_start(s))

Digits == {"0", "1", "2", "3", "4", "5", "6", "7", "8", "9"}

DigitVal(c) ==
    CASE c = "0" -> 0 [] c = "1" -> 1 [] c = "2" -> 2 [] c = "3" -> 3 [] c = "4" -> 4
      [] c = "5" -> 5 [] c = "6" -> 6 [] c = "7" -> 7 [] c = "8" -> 8 [] c = "9" -> 9

\* a u32 as two 16-bit halves, an overflowing or malformed one as ok = FALSE
U32(n) == [ok |-> TRUE, hi |-> n \div 65536, lo |-> n % 65536]

U32Err == [ok |-> FALSE, hi |-> 0, lo |-> 0]

\* v * 10 + d in u32, checked
MulAdd(v, d) ==
    LET lo2 == v.lo * 10 + d
        hi2 == v.hi * 10 + lo2 \div 65536
    IN  IF hi2 > U16Max THEN U32Err ELSE [ok |-> TRUE, hi |-> hi2, lo |-> lo2 % 65536]

RECURSIVE DigitsFrom(_, _, _)
DigitsFrom(s, i, v) ==
    IF ~v.ok \/ i > Len(s) THEN v
    ELSE IF s[i] \notin Digits THEN U32Err
    ELSE DigitsFrom(s, i + 1, MulAdd(v, DigitVal(s[i])))

\* str::parse::<u32>: an optional '+', then one digit or more, no overflow
ParseU32(s) ==
    LET body == IF s # <<>> /\ Head(s) = "+" THEN Tail(s) ELSE s
    IN  IF body = <<>> THEN U32Err ELSE DigitsFrom(body, 1, U32(0))

\* what parse_duration is taken to return when it accepts a text
FancyMillis == 1000

\* duration_raw.parse(), else parse_duration::parse and as_millis().try_into()
UnsignedMillis(duration_raw) ==
    LET n == ParseU32(duration_raw)
    IN  IF n.ok THEN n ELSE IF fancy_ok THEN U32(FancyMillis) ELSE U32Err

\* variant: the conversion succeeds below 2^30 only
FitsI32_Below2Pow30(u) == u.hi < 16384

\* i32::try_from(u32) succeeds below 2^31
FitsI32(u) == u.hi < 32768

I32Of(u) == u.hi * 65536 + u.lo

\* str::parse::<u16>: as for u32, up to 65535
ParseU16(s) ==
    LET n == ParseU32(s)
    IN  IF n.ok /\ n.hi = 0 THEN n ELSE U32Err

\* str::parse::<i32>: an optional sign, then one digit or more, within
\* -2^31 .. 2^31 - 1
ParseI32(s) ==
    LET signed == s # <<>> /\ Head(s) \in {"+", "-"}
        negative == signed /\ Head(s) = "-"
        body == IF signed THEN Tail(s) ELSE s
        n == IF body = <<>> THEN U32Err ELSE DigitsFrom(body, 1, U32(0))
    IN  IF ~n.ok THEN [ok |-> FALSE, v |-> 0]
        ELSE IF FitsI32(n)
        THEN [ok |-> TRUE, v |-> IF negative THEN 0 - I32Of(n) ELSE I32Of(n)]
        ELSE IF negative /\ n.hi = 32768 /\ n.lo = 0
        THEN [ok |-> TRUE, v |-> (0 - I32Max) - 1]
        ELSE [ok |-> FALSE, v |-> 0]

\* str::parse::<f32> on a text without '.', exponent, "inf" or "nan": a
\* decimal integer of magnitude up to 2^24 is taken exactly, a text that is
\* no number is an error (larger integers, which f32 rounds, and the other
\* float syntax are not among the inputs)
ParseF32(s) ==
    LET n == ParseI32(s)
    IN  IF n.ok /\ n.v <= 16777216 /\ n.v >= 0 - 16777216 THEN n ELSE [ok |-> FALSE, v |-> 0]

CmdOk(c) == [kind |-> "cmd", cmd |-> c, err |-> NoErr]

CmdErr(e) == [kind |-> "err", cmd |-> Stop_, err |-> e]

CmdEmpty == [kind |-> "empty", cmd |-> Stop_, err |-> NoErr]

\* variant: the text after the sign is not trimmed
ParseSeek_NoTrim(command, args) ==
    IF args = <<>> THEN CmdErr(InsufficientArgs(command, "a duration"))
    ELSE LET arg == join(args)
             first_char == Head(arg)
             duration_raw == IF first_char \in {"+", "-"} THEN Tail(arg) ELSE arg
             unsigned_millis == UnsignedMillis(duration_raw)
         IN  IF ~unsigned_millis.ok THEN CmdErr(ArgParseError(duration_raw))
             ELSE IF first_char = "+"
             THEN IF FitsI32(unsigned_millis)
                  THEN CmdOk(SeekRelative(I32Of(unsigned_millis)))
                  ELSE CmdErr(ArgParseError(duration_raw))
             ELSE IF first_char = "-"
             THEN IF FitsI32(unsigned_millis)
                  THEN CmdOk(SeekRelative(0 - I32Of(unsigned_millis)))
                  ELSE CmdErr(ArgParseError(duration_raw))
             ELSE CmdOk(SeekAbsolute(unsigned_millis))

\* the "seek" arm
ParseSeek(command, args) ==
    IF args = <<>> THEN CmdErr(InsufficientArgs(command, "a duration"))
    ELSE LET arg == join(args)
             first_char == Head(arg)
             duration_raw == IF first_char \in {"+", "-"} THEN trim(Tail(arg)) ELSE arg
             unsigned_millis == UnsignedMillis(duration_raw)
         IN  IF ~unsigned_millis.ok THEN CmdErr(ArgParseError(duration_raw))
             ELSE IF first_char = "+"
             THEN IF FitsI32(unsigned_millis)
                  THEN CmdOk(SeekRelative(I32Of(unsigned_millis)))
                  ELSE CmdErr(ArgParseError(duration_raw))
             ELSE IF first_char = "-"
             THEN IF FitsI32(unsigned_millis)
                  THEN CmdOk(SeekRelative(0 - I32Of(unsigned_millis)))
                  ELSE CmdErr(ArgParseError(duration_raw))
             ELSE CmdOk(SeekAbsolute(unsigned_millis))

\* the "focus" arm
ParseFocus(command, args) ==
    IF args = <<>> THEN CmdErr(InsufficientArgs(command, "queue|search|library"))
    ELSE CmdOk(Focus(args[1]))

\* the "volup" arm
ParseVolUp(args) ==
    IF args = <<>> THEN CmdOk(VolumeUp_(1))
    ELSE LET amount == ParseU16(args[1])
         IN  IF amount.ok THEN CmdOk(VolumeUp_(amount.lo))
             ELSE CmdErr(ArgParseError(args[1]))

\* the "voldown" arm
ParseVolDown(args) ==
    IF args = <<>> THEN CmdOk(VolumeDown_(1))
    ELSE LET amount == ParseU16(args[1])
         IN  IF amount.ok THEN CmdOk(VolumeDown_(amount.lo))
             ELSE CmdErr(ArgParseError(args[1]))

\* the "repeat" | "loop" arm
ParseRepeat(args) ==
    IF args = <<>> THEN CmdOk(Repeat("None", "-"))
    ELSE LET arg == args[1]
         IN  CASE arg \in {W.list, W.playlist, W.queue} -> CmdOk(Repeat("Some", "RepeatPlaylist"))
               [] arg \in {W.track, W.once, W.single} -> CmdOk(Repeat("Some", "RepeatTrack"))
               [] arg \in {W.none, W.off} -> CmdOk(Repeat("Some", "None"))
               [] OTHER ->
                    CmdErr(BadEnumArg(arg,
                        <<W.list, W.playlist, W.queue, W.track, W.once, W.single,
                          W.none, W.off>>, TRUE))

\* variant: the error says the switch is required
ParseShuffle_NotOptional(args) ==
    IF args = <<>> THEN CmdOk(Shuffle("None", "-"))
    ELSE LET arg == args[1]
         IN  CASE arg = W.on -> CmdOk(Shuffle("Some", "true"))
               [] arg = W.off -> CmdOk(Shuffle("Some", "false"))
               [] OTHER -> CmdErr(BadEnumArg(arg, <<W.on, W.off>>, FALSE))

\* the "shuffle" arm
ParseShuffle(args) ==
    IF args = <<>> THEN CmdOk(Shuffle("None", "-"))
    ELSE LET arg == args[1]
         IN  CASE arg = W.on -> CmdOk(Shuffle("Some", "true"))
               [] arg = W.off -> CmdOk(Shuffle("Some", "false"))
               [] OTHER -> CmdErr(BadEnumArg(arg, <<W.on, W.off>>, TRUE))

\* variant: the error says the target may be omitted
ParseOpen_Optional(command, args) ==
    IF args = <<>> THEN CmdErr(InsufficientArgs(command, "selected|current"))
    ELSE LET target_mode_raw == args[1]
         IN  CASE target_mode_raw = W.selected -> CmdOk(Open("Selected"))
               [] target_mode_raw = W.current -> CmdOk(Open("Current"))
               [] OTHER ->
                    CmdErr(BadEnumArg(target_mode_raw, <<W.selected, W.current>>, TRUE))

\* the "open" arm
ParseOpen(command, args) ==
    IF args = <<>> THEN CmdErr(InsufficientArgs(command, "selected|current"))
    ELSE LET target_mode_raw == args[1]
         IN  CASE target_mode_raw = W.selected -> CmdOk(Open("Selected"))
               [] target_mode_raw = W.current -> CmdOk(Open("Current"))
               [] OTHER ->
                    CmdErr(BadEnumArg(target_mode_raw, <<W.selected, W.current>>, FALSE))

\* the "goto" arm
ParseGoto(command, args) ==
    IF args = <<>> THEN CmdErr(InsufficientArgs(command, "album|artist"))
    ELSE LET goto_mode_raw == args[1]
         IN  CASE goto_mode_raw = W.album -> CmdOk(Goto("Album"))
               [] goto_mode_raw = W.artist -> CmdOk(Goto("Artist"))
               [] OTHER -> CmdErr(BadEnumArg(goto_mode_raw, <<W.album, W.artist>>, FALSE))

\* the "move" arm
ParseMove(command, args) ==
    IF args = <<>> THEN CmdErr(InsufficientArgs(command, "a direction"))
    ELSE LET move_mode_raw == args[1]
             move_mode ==
                 CASE move_mode_raw = W.playing -> "Playing"
                   [] move_mode_raw \in {W.top, W.pageup, W.up} -> "Up"
                   [] move_mode_raw \in {W.bottom, W.pagedown, W.down} -> "Down"
                   [] move_mode_raw \in {W.leftmost, W.pageleft, W.left} -> "Left"
                   [] move_mode_raw \in {W.rightmost, W.pageright, W.right} -> "Right"
                   [] OTHER -> "-"
         IN  IF move_mode = "-"
             THEN CmdErr(BadEnumArg(move_mode_raw,
                      <<W.playing, W.top, W.bottom, W.leftmost, W.rightmost, W.pageup,
                        W.pagedown, W.pageleft, W.pageright, W.up, W.down, W.left,
                        W.right>>, FALSE))
             ELSE IF move_mode_raw = W.playing
             THEN CmdOk(Move(move_mode, "Integer", 1))
             ELSE IF move_mode_raw \in {W.top, W.bottom, W.leftmost, W.rightmost}
             THEN CmdOk(Move(move_mode, "Extreme", 0))
             ELSE IF move_mode_raw \in {W.pageup, W.pagedown, W.pageleft, W.pageright}
             THEN IF Len(args) < 2 THEN CmdOk(Move(move_mode, "Integer", 1))
                  ELSE LET amount == ParseF32(args[2])
                       IN  IF amount.ok THEN CmdOk(Move(move_mode, "Float", amount.v))
                           ELSE CmdErr(ArgParseError(args[2]))
             ELSE IF Len(args) < 2 THEN CmdOk(Move(move_mode, "Integer", 1))
                  ELSE LET amount == ParseI32(args[2])
                       IN  IF amount.ok THEN CmdOk(Move(move_mode, "Integer", amount.v))
                           ELSE CmdErr(ArgParseError(args[2]))

\* the "shift" arm
ParseShift(command, args) ==
    IF args = <<>> THEN CmdErr(InsufficientArgs(command, "up|down"))
    ELSE LET shift_dir_raw == args[1]
         IN  IF shift_dir_raw \notin {W.up, W.down}
             THEN CmdErr(BadEnumArg(shift_dir_raw, <<W.up, W.down>>, FALSE))
             ELSE LET shift_dir == IF shift_dir_raw = W.up THEN "Up" ELSE "Down"
                  IN  IF Len(args) < 2 THEN CmdOk(Shift(shift_dir, "None", 0))
                      ELSE LET amount == ParseI32(args[2])
                           IN  IF amount.ok THEN CmdOk(Shift(shift_dir, "Some", amount.v))
                               ELSE CmdErr(ArgParseError(args[2]))

\* the "sort" arm
ParseSort(command, args) ==
    IF args = <<>> THEN CmdErr(InsufficientArgs(command, "a sort key"))
    ELSE LET key_raw == args[1]
             key ==
                 CASE key_raw = W.title -> "Title"
                   [] key_raw = W.duration -> "Duration"
                   [] key_raw = W.album -> "Album"
                   [] key_raw = W.added -> "Added"
                   [] key_raw = W.artist -> "Artist"
                   [] OTHER -> "-"
         IN  IF key = "-"
             THEN CmdErr(BadEnumArg(key_raw,
                      <<W.title, W.duration, W.album, W.added, W.artist>>, FALSE))
             ELSE IF Len(args) < 2 THEN CmdOk(Sort(key, "Ascending"))
             ELSE LET direction_raw == args[2]
                  IN  CASE direction_raw \in {W.a, W.asc, W.ascending} ->
                               CmdOk(Sort(key, "Ascending"))
                        [] direction_raw \in {W.d, W.desc, W.descending} ->
                               CmdOk(Sort(key, "Descending"))
                        [] OTHER ->
                               CmdErr(BadEnumArg(direction_raw,
                                   <<W.a, W.asc, W.ascending, W.d, W.desc, W.descending>>,
                                   TRUE))

\* the "similar" arm
ParseSimilar(command, args) ==
    IF args = <<>> THEN CmdErr(InsufficientArgs(command, "selected|current"))
    ELSE LET target_mode_raw == args[1]
         IN  CASE target_mode_raw = W.selected -> CmdOk(ShowRecommendations("Selected"))
               [] target_mode_raw = W.current -> CmdOk(ShowRecommendations("Current"))
               [] OTHER ->
                    CmdErr(BadEnumArg(target_mode_raw, <<W.selected, W.current>>, FALSE))

\* the match on the command word
ParseCommand(command, args) ==
    CASE command \in {W.quit, W.q, W.x} -> CmdOk(Command("Quit"))
      [] command \in {W.playpause, W.pause, W.toggleplay, W.toggleplayback} ->
             CmdOk(TogglePlay)
      [] command = W.stop -> CmdOk(Stop_)
      [] command = W.previous -> CmdOk(Command("Previous"))
      [] command = W.next -> CmdOk(Command("Next"))
      [] command = W.clear -> CmdOk(Command("Clear"))
      [] command = W.queue -> CmdOk(Command("Queue"))
      [] command = W.playnext -> CmdOk(Command("PlayNext"))
      [] command = W.play -> CmdOk(Command("Play"))
      [] command = W.update -> CmdOk(Command("UpdateLibrary"))
      [] command = W.focus -> ParseFocus(command, args)
      [] command = W.seek -> ParseSeek(command, args)
      [] command = W.volup -> ParseVolUp(args)
      [] command = W.voldown -> ParseVolDown(args)
      [] command \in {W.repeat, W.loop} -> ParseRepeat(args)
      [] command = W.shuffle -> ParseShuffle(args)
      [] command = W.back -> CmdOk(Command("Back"))
      [] command = W.open -> ParseOpen(command, args)
      [] command = W.goto -> ParseGoto(command, args)
      [] command = W.move -> ParseMove(command, args)
      [] command = W.shift -> ParseShift(command, args)
      [] command = W.search -> CmdOk(Search(join(args)))
      [] command = W.jump -> CmdOk(JumpQuery(join(args)))
      [] command = W.jumpnext -> CmdOk(JumpNext)
      [] command = W.jumpprevious -> CmdOk(JumpPrevious)
      [] command = W.help -> CmdOk(Command("Help"))
      [] command = W.noop -> CmdOk(Command("Noop"))
      [] command = W.sort -> ParseSort(command, args)
      [] command = W.logout -> CmdOk(Command("Logout"))
      [] command = W.similar -> ParseSimilar(command, args)
      [] command = W.redraw -> CmdOk(Command("Redraw"))
      [] command = W.exec -> CmdOk(Execute(join(args)))
      [] command = W.reconnect -> CmdOk(Command("Reconnect"))
      [] OTHER -> CmdErr(NoSuchCommand(command))

\* variant: Jump(Previous) is named "jump"
basename_JumpForPrevious(c) ==
    CASE c.name = "Quit" -> W.quit
      [] c.name = "TogglePlay" -> W.playpause
      [] c.name = "Stop" -> W.stop
      [] c.name = "Previous" -> W.previous
      [] c.name = "Next" -> W.next
      [] c.name = "Clear" -> W.clear
      [] c.name = "Queue" -> W.queue
      [] c.name = "PlayNext" -> W.playnext
      [] c.name = "Play" -> W.play
      [] c.name = "UpdateLibrary" -> W.update
      [] c.name = "Focus" -> W.focus
      [] c.name = "Seek" -> W.seek
      [] c.name = "VolumeUp" -> W.volup
      [] c.name = "VolumeDown" -> W.voldown
      [] c.name = "Repeat" -> W.repeat
      [] c.name = "Shuffle" -> W.shuffle
      [] c.name = "Back" -> W.back
      [] c.name = "Open" -> W.open
      [] c.name = "Goto" -> W.goto
      [] c.name = "Move" -> W.move
      [] c.name = "Shift" -> W.shift
      [] c.name = "Search" -> W.search
      [] c.name = "Jump" /\ c.dir = "Previous" -> W.jump
      [] c.name = "Jump" /\ c.dir = "Next" -> W.jumpnext
      [] c.name = "Jump" /\ c.dir = "Query" -> W.jump
      [] c.name = "Help" -> W.help
      [] c.name = "Noop" -> W.noop
      [] c.name = "Sort" -> W.sort
      [] c.name = "Logout" -> W.logout
      [] c.name = "ShowRecommendations" -> W.similar
      [] c.name = "Redraw" -> W.redraw
      [] c.name = "Execute" -> W.exec
      [] c.name = "Reconnect" -> W.reconnect

\* Command::basename
basename(c) ==
    CASE c.name = "Quit" -> W.quit
      [] c.name = "TogglePlay" -> W.playpause
      [] c.name = "Stop" -> W.stop
      [] c.name = "Previous" -> W.previous
      [] c.name = "Next" -> W.next
      [] c.name = "Clear" -> W.clear
      [] c.name = "Queue" -> W.queue
      [] c.name = "PlayNext" -> W.playnext
      [] c.name = "Play" -> W.play
      [] c.name = "UpdateLibrary" -> W.update
      [] c.name = "Focus" -> W.focus
      [] c.name = "Seek" -> W.seek
      [] c.name = "VolumeUp" -> W.volup
      [] c.name = "VolumeDown" -> W.voldown
      [] c.name = "Repeat" -> W.repeat
      [] c.name = "Shuffle" -> W.shuffle
      [] c.name = "Back" -> W.back
      [] c.name = "Open" -> W.open
      [] c.name = "Goto" -> W.goto
      [] c.name = "Move" -> W.move
      [] c.name = "Shift" -> W.shift
      [] c.name = "Search" -> W.search
      [] c.name = "Jump" /\ c.dir = "Previous" -> W.jumpprevious
      [] c.name = "Jump" /\ c.dir = "Next" -> W.jumpnext
      [] c.name = "Jump" /\ c.dir = "Query" -> W.jump
      [] c.name = "Help" -> W.help
      [] c.name = "Noop" -> W.noop
      [] c.name = "Sort" -> W.sort
      [] c.name = "Logout" -> W.logout
      [] c.name = "ShowRecommendations" -> W.similar
      [] c.name = "Redraw" -> W.redraw
      [] c.name = "Execute" -> W.exec
      [] c.name = "Reconnect" -> W.reconnect

\* variant: a command string without a word is rejected
ParseOne_BlankIsError(command_input) ==
    LET components == split_whitespace(command_input)
    IN  IF components = <<>> THEN CmdErr(NoSuchCommand(<<>>))
        ELSE LET command == Head(components)
                 args == Tail(components)
             IN  ParseCommand(command, args)

\* the body of the second loop for one command string
ParseOne(command_input) ==
    LET components == split_whitespace(command_input)
    IN  IF components = <<>> THEN CmdEmpty
        ELSE LET command == Head(components)
                 args == Tail(components)
             IN  ParseCommand(command, args)

\* variant: the commands parsed before the failing string are returned
ParseStep_KeepsCommands(acc, command_input) ==
    LET r == ParseOne(command_input)
    IN  IF r.kind = "empty" THEN acc
        ELSE IF r.kind = "err"
        THEN [ok |-> FALSE, commands |-> acc.commands, err |-> r.err]
        ELSE [acc EXCEPT !.commands = Append(@, r.cmd)]

\* one iteration of the second loop: an empty string is skipped, an error
\* returns from parse, a command is pushed
ParseStep(acc, command_input) ==
    LET r == ParseOne(command_input)
    IN  IF r.kind = "empty" THEN acc
        ELSE IF r.kind = "err"
        THEN [ok |-> FALSE, commands |-> <<>>, err |-> r.err]
        ELSE [acc EXCEPT !.commands = Append(@, r.cmd)]

RECURSIVE ParseFrom(_, _, _)
ParseFrom(cis, k, acc) ==
    IF k > Len(cis) \/ ~acc.ok THEN acc
    ELSE ParseFrom(cis, k + 1, ParseStep(acc, cis[k]))

\* let mut commands = vec![]
NoCommands == [ok |-> TRUE, commands |-> <<>>, err |-> NoErr]

\* the variables parse does not touch
machine == <<status, elapsed, since, channel, chanLock, volume, now, overflowChecks,
             uipc, cur, after, ev, events, inbox, rxAlive, wpc, wvol, executed,
             sentLog, dropped, late, died, trackReset, nextId, nextWorker>>

\* the first loop of parse
ParseTokenize ==
    /\ parse_pc = "start"
    /\ command_inputs' = Tokenize(input)
    /\ parse_pc' = "tokenized"
    /\ UNCHANGED <<input, result, fancy_ok, repeat, modes, lastPlayer>>
    /\ UNCHANGED machine

\* the second loop of parse and its return
ParseCommands ==
    /\ parse_pc = "tokenized"
    /\ result' = ParseFrom(command_inputs, 1, NoCommands)
    /\ parse_pc' = "done"
    /\ UNCHANGED <<input, command_inputs, fancy_ok, repeat, modes, lastPlayer>>
    /\ UNCHANGED machine

\* a call of parse on any input, the controller as constructed
InitParse ==
    /\ status = Stopped
    /\ elapsed = None
    /\ since = None
    /\ channel = 1
    /\ chanLock = {}
    /\ volume = U16Max
    /\ now = 0
    /\ overflowChecks \in BOOLEAN
    /\ uipc = "idle"
    /\ cur = NoCmd
    /\ after = "idle"
    /\ ev = NoEvent
    /\ events = <<>>
    /\ inbox = [w \in Workers |-> <<>>]
    /\ rxAlive = [w \in Workers |-> w = 1]
    /\ wpc = [w \in Workers |-> IF w = 1 THEN "running" ELSE "unborn"]
    /\ wvol = [w \in Workers |-> IF w = 1 THEN U16Max ELSE 0]
    /\ executed = [w \in Workers |-> <<>>]
    /\ sentLog = [w \in Workers |-> <<>>]
    /\ dropped = {}
    /\ late = {}
    /\ died = [w \in Workers |-> 0]
    /\ trackReset = FALSE
    /\ nextId = 1
    /\ nextWorker = 2
    /\ input \in Inputs
    /\ command_inputs = <<>>
    /\ result = NoResult
    /\ fancy_ok \in BOOLEAN
    /\ parse_pc = "start"
    /\ repeat = "None"
    /\ modes = <<"None">>
    /\ lastPlayer = NoEvent

NextParse ==
    \/ ParseTokenize
    \/ ParseCommands

SpecParse == InitParse /\ [][NextParse]_vars

(* ----------------------------------------------------- event-loop system *)
\* the engine events the event-loop specification draws from
LoopEvents == {Playing(0), Paused(1), FinishedTrack}

\* the controller once constructed, its first worker in the run loop
InitLoop == InitPos /\ now = 0 /\ ~overflowChecks

\* the event loop and the workers that feed it: engine events, session
\* faults and the restarts that follow
NextLoop ==
    \/ HandlePlayer
    \/ update_status_second
    \/ update_status_write
    \/ queue_next
    \/ HandleSessionDied
    \/ \E w \in Workers : WConnectOk(w)
    \/ \E w \in Workers : WForward(w, LoopEvents, MaxBatch)
    \/ \E w \in Workers : WFault(w)
    \/ \E w \in Workers : WClear(w)
    \/ \E w \in Workers : WSendDied(w)
    \/ \E w \in Workers : WReturn(w)

SpecLoop == InitLoop /\ [][NextLoop]_vars

(* ------------------------------------------------- command-word system *)
\* every command word of the match, and a word that is none
CommandWords ==
    {W.quit, W.q, W.x, W.playpause, W.pause, W.toggleplay, W.toggleplayback, W.stop,
     W.previous, W.next, W.clear, W.queue, W.playnext, W.play, W.update, W.focus,
     W.seek, W.volup, W.voldown, W.repeat, W.loop, W.shuffle, W.back, W.open,
     W.goto, W.move, W.shift, W.search, W.jump, W.jumpnext, W.jumpprevious, W.help,
     W.noop, W.sort, W.logout, W.similar, W.redraw, W.exec, W.reconnect, W.zz}

\* every argument word some arm compares against
EnumWords ==
    {W.list, W.playlist, W.queue, W.track, W.once, W.single, W.none, W.off, W.on,
     W.selected, W.current, W.album, W.artist, W.playing, W.top, W.bottom,
     W.leftmost, W.rightmost, W.pageup, W.pagedown, W.pageleft, W.pageright, W.up,
     W.down, W.left, W.right, W.title, W.duration, W.added, W.a, W.asc,
     W.ascending, W.d, W.desc, W.descending}

DirectionWords == {W.a, W.asc, W.ascending, W.d, W.desc, W.descending}

Numbers == {W.n7, W.n2147483647, W.n2147483648, W.n4294967295, W.n4294967296}

\* the words tried as argument i of a command: seek gets signs and numbers
\* around the ends of the integer ranges, the other commands every enum
\* word, a small number and a word that is none
WordsAt(command, i) ==
    IF command = W.seek
    THEN IF i = 1
         THEN {<<"+">>, <<"-">>, W.zz} \cup Numbers
              \cup {<<"+">> \o n : n \in Numbers} \cup {<<"-">> \o n : n \in Numbers}
         ELSE IF i = 2 THEN Numbers \cup {W.zz}
         ELSE {W.n7, W.zz}
    ELSE IF i = 1 THEN EnumWords \cup {W.n7, W.zz}
         ELSE IF i = 2 THEN DirectionWords \cup {W.n7, <<"-">> \o W.n7, W.zz}
         ELSE {W.n7, W.zz}

RECURSIVE ArgsOfLen(_, _)
ArgsOfLen(command, n) ==
    IF n = 0 THEN {<<>>}
    ELSE {Append(args, w) : args \in ArgsOfLen(command, n - 1), w \in WordsAt(command, n)}

\* one command string: a command word and up to MaxArgs arguments
ArgInputs ==
    UNION {{join(<<command>> \o args) : args \in ArgsOfLen(command, n)} :
              command \in CommandWords, n \in 0..MaxArgs}

RepeatSettings == {"None", "RepeatPlaylist", "RepeatTrack"}

\* variant: the cycle leaves out RepeatTrack
RepeatMode_SkipsTrack(cmd, current) ==
    IF cmd.opt = "Some" THEN cmd.dir
    ELSE CASE current = "None" -> "RepeatPlaylist"
           [] current = "RepeatPlaylist" -> "None"
           [] current = "RepeatTrack" -> "None"

\* mode.unwrap_or_else(|| match self.queue.get_repeat() { .. })
RepeatMode(cmd, current) ==
    IF cmd.opt = "Some" THEN cmd.dir
    ELSE CASE current = "None" -> "RepeatPlaylist"
           [] current = "RepeatPlaylist" -> "RepeatTrack"
           [] current = "RepeatTrack" -> "None"

\* handle_default_commands on the Repeat command the line has parsed to;
\* the command can be given again
HandleRepeat ==
    /\ parse_pc = "done"
    /\ result.ok
    /\ result.commands # <<>>
    /\ result.commands[1].name = "Repeat"
    /\ Len(modes) <= MaxRepeats
    /\ repeat' = RepeatMode(result.commands[1], repeat)
    /\ modes' = Append(modes, repeat')
    /\ UNCHANGED <<input, command_inputs, result, fancy_ok, parse_pc, lastPlayer>>
    /\ UNCHANGED machine

\* a call of parse on one command string, the controller as constructed,
\* the queue in any repeat setting
InitArgs ==
    /\ status = Stopped
    /\ elapsed = None
    /\ since = None
    /\ channel = 1
    /\ chanLock = {}
    /\ volume = U16Max
    /\ now = 0
    /\ overflowChecks = FALSE
    /\ uipc = "idle"
    /\ cur = NoCmd
    /\ after = "idle"
    /\ ev = NoEvent
    /\ events = <<>>
    /\ inbox = [w \in Workers |-> <<>>]
    /\ rxAlive = [w \in Workers |-> w = 1]
    /\ wpc = [w \in Workers |-> IF w = 1 THEN "running" ELSE "unborn"]
    /\ wvol = [w \in Workers |-> IF w = 1 THEN U16Max ELSE 0]
    /\ executed = [w \in Workers |-> <<>>]
    /\ sentLog = [w \in Workers |-> <<>>]
    /\ dropped = {}
    /\ late = {}
    /\ died = [w \in Workers |-> 0]
    /\ trackReset = FALSE
    /\ nextId = 1
    /\ nextWorker = 2
    /\ input \in ArgInputs
    /\ command_inputs = <<>>
    /\ result = NoResult
    /\ fancy_ok \in BOOLEAN
    /\ parse_pc = "start"
    /\ repeat \in RepeatSettings
    /\ modes = <<repeat>>
    /\ lastPlayer = NoEvent

NextArgs ==
    \/ ParseTokenize
    \/ ParseCommands
    \/ HandleRepeat

SpecArgs == InitArgs /\ [][NextArgs]_vars

(* ================================================================ claims *)
UpdateInProgress == uipc \in {"us_second", "us_status"}

\* C1: in every reachable state, the intermediate points of update_status and
\* update_track included, elapsed and since are never both populated.
\* update_status(Paused) after Playing sets elapsed before it clears since.
C1_NeverBothPopulated == ~(elapsed # None /\ since # None)

C10_PlayingProgress ==
    [][/\ (status.tag = "Playing" /\ ~UpdateInProgress /\ now >= status.v)
            => get_current_progress = now - status.v
       /\ (/\ status.tag = "Playing" /\ status' = status
           /\ ~UpdateInProgress /\ ~UpdateInProgress'
           /\ now >= status.v /\ now' >= now)
            => get_current_progress' >= get_current_progress]_vars

\* C10 (amended): while the status is Playing(t0), no update_status is in
\* progress and update_track has not run since that status was applied,
\* since = t0 and elapsed is absent, so get_current_progress() equals
\* now - t0 (for a clock not before t0) and does not decrease as time
\* advances; once update_track has run the status still reads Playing(t0)
\* but get_current_progress() is 0.
C10_PlayingProgressUntilReset ==
    [][/\ (status.tag = "Playing" /\ ~UpdateInProgress /\ ~trackReset)
            => (elapsed = None /\ since = status.v)
       /\ (status.tag = "Playing" /\ ~UpdateInProgress /\ ~trackReset /\ now >= status.v)
            => get_current_progress = now - status.v
       /\ (status.tag = "Playing" /\ ~UpdateInProgress /\ trackReset)
            => get_current_progress = 0
       /\ (/\ status.tag = "Playing" /\ status' = status /\ trackReset' = trackReset
           /\ ~UpdateInProgress /\ ~UpdateInProgress'
           /\ now >= status.v /\ now' >= now)
            => get_current_progress' >= get_current_progress]_vars

\* playing, with time having advanced past the start of playback
C10_Witness ==
    /\ status.tag = "Playing"
    /\ uipc = "idle"
    /\ ~trackReset
    /\ since = status.v
    /\ now > status.v

\* C3 (as stated): each call of load, play, pause, stop, seek, seek_relative,
\* set_volume, preload or shutdown returns normally and enqueues exactly one
\* WorkerCommand on the current inlet when the inlet is present and its
\* receiver exists, and nothing otherwise; nothing but the send enqueues.
C3_OneCommandPerCall ==
    [][/\ ~(uipc = "idle" /\ uipc' = "panicked")
       /\ (uipc = "sw_locked" /\ uipc' = "sw_sent") =>
            IF channel # None /\ rxAlive[channel]
            THEN inbox' = [inbox EXCEPT ![channel] = Append(@, cur)]
            ELSE inbox' = inbox
       /\ ~(uipc = "sw_locked" /\ uipc' = "sw_sent") =>
            \A w \in Workers : Len(inbox'[w]) <= Len(inbox[w])]_vars

\* C4: a worker that left its run loop first sets the controller's inlet to
\* absent and only then emits SessionDied, exactly once; no SessionDied of a
\* worker exists while that worker's inlet is installed.
C4_ClearedBeforeDied ==
    /\ \A w \in Workers :
        /\ died[w] <= 1
        /\ died[w] = 1 => channel # w
        /\ wpc[w] = "cleared" => (channel = None /\ died[w] = 0)
        /\ (wpc[w] \in {"sent", "done"}) <=> (died[w] = 1)
    /\ \A i \in 1..Len(events) :
        events[i].kind = "SessionDied" =>
            (channel # events[i].w /\ wpc[events[i].w] \in {"sent", "done"})

\* a SessionDied is waiting in the event queue
C4_Witness ==
    \E i \in 1..Len(events) : events[i].kind = "SessionDied" /\ died[events[i].w] = 1

Ids(q) == [i \in 1..Len(q) |-> q[i].id]

Range(q) == {q[i] : i \in 1..Len(q)}

\* C6: a command issued while the inlet is absent, or sent on the inlet of a
\* worker that has left its run loop, is never executed by any worker and is
\* never in the queue of a worker that is connecting or running.
C6_DroppedNeverExecuted ==
    \A w \in Workers :
        /\ Range(executed[w]) \cap (dropped \cup late) = {}
        /\ Range(Ids(inbox[w])) \cap dropped = {}
        /\ InRunLoop(w) => Range(Ids(inbox[w])) \cap late = {}

\* a command was dropped or sent too late, and the worker of the next
\* restart has executed a later command
C6_Witness ==
    \E w \in Workers : \E id \in dropped \cup late :
        /\ w > 1
        /\ wpc[w] = "running"
        /\ \E i \in 1..Len(executed[w]) : executed[w][i] > id

TaskAlive(w) == wpc[w] \in {"connecting", "running", "exited", "cleared", "sent"}

\* C7 (as stated): at every moment at most one worker task is alive.
C7_AtMostOneAlive == Cardinality({w \in Workers : TaskAlive(w)}) <= 1

\* C7 (amended): at most one worker is connecting, in its run loop or on its
\* way to emitting SessionDied; start_worker constructs a worker only after
\* the previous one has left its run loop, cleared the inlet and emitted
\* SessionDied (the previous task may still be returning).
C7_OneWorkerBeforeDied ==
    \A w \in Workers :
        /\ wpc[w] \in {"connecting", "running", "exited", "cleared"} =>
              \A v \in Workers \ {w} : wpc[v] \in {"unborn", "sent", "done", "panicked"}
        /\ (w > 1 /\ wpc[w] # "unborn") => wpc[w - 1] \in {"sent", "done"}

\* the successor is already connecting or running while the previous task
\* has not yet returned
C7_Witness ==
    \E w \in Workers : w > 1 /\ InRunLoop(w) /\ wpc[w - 1] = "sent"

IsPrefix(p, q) == Len(p) <= Len(q) /\ \A i \in 1..Len(p) : p[i] = q[i]

\* C8: for each inlet the worker receives the commands in exactly the order
\* of the controller's calls, none reordered and none delivered twice.
C8_FifoPerInlet ==
    \A w \in Workers :
        /\ IsPrefix(executed[w], sentLog[w])
        /\ rxAlive[w] => sentLog[w] = executed[w] \o Ids(inbox[w])
        /\ \A i, j \in 1..Len(sentLog[w]) : i < j => sentLog[w][i] < sentLog[w][j]

\* a worker has executed two commands
C8_Witness == \E w \in Workers : Len(executed[w]) >= 2

\* C9 (as stated): the lock on the inlet is released before the
\* WorkerCommand is sent.
C9_NoLockAtSend ==
    [][(uipc = "sw_locked" /\ uipc' = "sw_sent") => chanLock = {}]_vars

\* C9 (amended): the UI thread holds a lock between two of its steps only
\* inside send_worker, where it holds the read lock on the inlet, and only
\* that lock, from before the send until send_worker returns; while it is
\* held the inlet is neither cleared nor replaced.
C9_ReadLockDuringSend ==
    [][/\ chanLock = (IF uipc \in {"sw_locked", "sw_sent"} THEN {"channel.read"} ELSE {})
       /\ "channel.read" \in chanLock => channel' = channel]_vars

\* a command has been enqueued under the read lock, which is still held
C9_Witness ==
    /\ uipc = "sw_sent"
    /\ chanLock = {"channel.read"}
    /\ channel # None
    /\ cur.id \in Range(Ids(inbox[channel]))

Terminated(w) ==
    \/ wpc[w] \in {"exited", "cleared", "sent", "done"}
    \/ w > 1 /\ wpc[w] = "panicked"

\* start_worker has since installed a new inlet and spawned its worker
Recovered(w) == \E v \in Workers : v > w /\ wpc[v] # "unborn"

\* the only restart the bound on workers rules out
LastWorkerLeftLoop(w) == w = MaxWorkers /\ wpc[w] # "panicked"

\* C5: under fair scheduling every worker termination is eventually followed
\* by the controller holding a new live inlet served by a new worker.  (The
\* claim is given every benefit: a process that has ended is excused, and a
\* first worker that fails at startup is not counted.)  A worker started by
\* a restart whose session connection fails ends without SessionDied.
C5_TerminationRestarts ==
    \A w \in Workers :
        [](Terminated(w) => <>(Recovered(w) \/ ~Alive \/ LastWorkerLeftLoop(w)))

\* C11: once update_status(Paused(pos)) has been applied, and until the next
\* update_status or update_track, get_current_progress() completes and
\* returns pos before and after every step, steps of the clock included.
C11_PausedProgressFrozen ==
    [][(status.tag = "Paused" /\ ~UpdateInProgress /\ ~trackReset) =>
        /\ ~ProgressPanics
        /\ get_current_progress = status.v
        /\ (status' = status /\ ~UpdateInProgress' /\ ~trackReset') =>
              get_current_progress' = status.v]_vars

\* paused at 1 ms, with the clock past 1
C11_Witness ==
    /\ status = Paused(1)
    /\ uipc = "idle"
    /\ ~trackReset
    /\ elapsed = 1
    /\ now > 1

\* C12: toggleplayback issues exactly one Pause command when the status
\* snapshot is Playing, exactly one Play when it is Paused, and is a no-op
\* otherwise; the command it issued is the one send_worker enqueues, once,
\* on the live inlet.
C12_ToggleByStatus ==
    [][/\ toggleplayback =>
            IF status.tag = "Playing"
            THEN cur' = Cmd("Pause", 0, nextId) /\ nextId' = nextId + 1 /\ inbox' = inbox
            ELSE IF status.tag = "Paused"
            THEN cur' = Cmd("Play", 0, nextId) /\ nextId' = nextId + 1 /\ inbox' = inbox
            ELSE UNCHANGED vars
       /\ (uipc = "sw_locked" /\ cur.op \in {"Pause", "Play"}) =>
            \/ uipc' = "sw_locked" /\ cur' = cur
            \/ /\ uipc' = "sw_sent" /\ cur' = cur
               /\ inbox' = [inbox EXCEPT ![channel] = Append(@, cur)]
       /\ (uipc = "sw_sent" /\ cur.op \in {"Pause", "Play"}) =>
            \A w \in Workers : Len(inbox'[w]) <= Len(inbox[w])]_vars

\* a Play issued on a Paused status has been enqueued behind the Pause that
\* was issued when the status was Playing
C12_Witness ==
    /\ status.tag = "Paused"
    /\ uipc = "sw_sent"
    /\ cur.op = "Play"
    /\ Len(inbox[1]) = 2
    /\ inbox[1][1].op = "Pause"
    /\ inbox[1][2] = cur

\* C13 (as stated): whenever no update call is in progress, since is
\* populated exactly when the status is Playing and elapsed is populated
\* exactly when the status is Paused or Stopped.
C13_FieldsMatchStatus ==
    ~UpdateInProgress =>
        /\ (since # None) <=> (status.tag = "Playing")
        /\ (elapsed # None) <=> (status.tag \in {"Paused", "Stopped"})

\* C13 (amended): whenever no update call is in progress, since is populated
\* only when the status is Playing(t0), and then equals t0; elapsed is
\* populated only when the status is Paused(pos), and then equals pos; both
\* are absent when the status is Stopped or FinishedTrack, at construction
\* included, and after update_track whatever the status; until update_track
\* runs a Playing status has since populated and a Paused status has elapsed
\* populated.
C13_FieldsFollowStatus ==
    ~UpdateInProgress =>
        /\ since # None => (status.tag = "Playing" /\ since = status.v)
        /\ elapsed # None => (status.tag = "Paused" /\ elapsed = status.v)
        /\ trackReset => (since = None /\ elapsed = None)
        /\ ~trackReset =>
              /\ status.tag = "Playing" => since # None
              /\ status.tag = "Paused" => elapsed # None

\* update_track has run over a Playing status
C13_Witness ==
    /\ uipc = "idle"
    /\ trackReset
    /\ status.tag = "Playing"
    /\ since = None
    /\ elapsed = None

SettingVolume == uipc \in {"sw_locked", "sw_sent"} /\ cur.op = "SetVolume"

\* C14: set_volume(v) makes volume() return v whether or not an inlet is
\* live, and nothing else changes volume(); a worker is constructed with the
\* controller's volume of that moment; and whenever the current inlet has a
\* receiver, its queue is empty and no set_volume call is under way, the
\* mixer volume of its worker equals volume().
C14_VolumeSingleSource ==
    [][/\ (uipc = "idle" /\ uipc' = "sw_locked" /\ cur'.op = "SetVolume") =>
            volume_get' = cur'.arg
       /\ volume' # volume =>
            (uipc = "idle" /\ cur'.op = "SetVolume" /\ cur'.arg = volume')
       /\ \A w \in Workers :
            (wpc[w] = "unborn" /\ wpc'[w] # "unborn") => wvol'[w] = volume_get'
       /\ (channel # None /\ ~SettingVolume) =>
            ((rxAlive[channel] /\ inbox[channel] = <<>>) =>
                wvol[channel] = volume_get)]_vars

\* the volume was set while no inlet could take the command, and the worker
\* of the next restart runs with that volume
C14_Witness ==
    \E w \in Workers :
        /\ w > 1
        /\ channel = w
        /\ wpc[w] = "running"
        /\ inbox[w] = <<>>
        /\ executed[w] = <<>>
        /\ dropped # {}
        /\ volume = 0
        /\ wvol[w] = 0
        /\ wvol[w - 1] = U16Max

\* C15: for every amount a and every volume v, handling VolumeUp(a) and then
\* VolumeDown(a) completes and leaves volume() equal to v.  (The claim is
\* given the benefit of its saturation clause: a VolumeUp that saturates at
\* 65535 is not required to be undone.)  For a >= 101 the product
\* VOLUME_PERCENT * a does not fit u16 and the handler panics in a build
\* with overflow checks.
C15_UpDownRoundTrip ==
    [][\A a \in Amounts :
        VolumeUp(a) =>
            /\ uipc' # "panicked"
            /\ volume + VolumeStep(a) <= U16Max =>
                  saturating_sub(volume_get', VolumeStep(a)) = volume]_vars

\* C16: no controller operation panics on an external input: every call
\* completes, seek_relative for every delta and every recorded progress
\* included, and get_current_progress() can complete in every state.
\* seek_relative(2147483647) on a recorded progress of 1 ms overflows i32.
C16_NoPanicOnInput ==
    [][uipc' # "panicked" /\ ~ProgressPanics']_vars

Blank(s) == \A i \in 1..Len(s) : s[i] = " "

NonBlank(ss) == SelectSeq(ss, LAMBDA x : ~Blank(x))

ParseDone == parse_pc = "done"

\* C17: when every non-blank command string of the input is a valid
\* command, parse returns exactly one Command per non-blank command string,
\* in the order of those strings; empty and whitespace-only command strings,
\* a trailing ';' and the empty input add no command and no error.
C17_OnePerCommandString ==
    ParseDone =>
        LET strings == NonBlank(command_inputs)
        IN  (\A i \in 1..Len(strings) : ParseOne(strings[i]).kind = "cmd") =>
                /\ result.ok
                /\ result.err = NoErr
                /\ Len(result.commands) = Len(strings)
                /\ \A i \in 1..Len(strings) :
                      result.commands[i] = ParseOne(strings[i]).cmd

\* ";stop;pause": an empty command string, then two commands in order
C17_Witness ==
    /\ ParseDone
    /\ Len(command_inputs) = 3
    /\ command_inputs[1] = <<>>
    /\ result.ok
    /\ result.commands = <<Stop_, TogglePlay>>

Failing(ss) == {i \in 1..Len(ss) : ParseOne(ss[i]).kind = "err"}

Leftmost(S) == CHOOSE i \in S : \A j \in S : i <= j

\* C18: when some command string of the input fails to parse, parse returns
\* the error of the leftmost failing string and no command, whatever the
\* strings before it.
C18_ErrorAbortsAll ==
    ParseDone =>
        (Failing(command_inputs) # {} =>
            /\ ~result.ok
            /\ result.commands = <<>>
            /\ result.err = ParseOne(command_inputs[Leftmost(Failing(command_inputs))]).err)

\* a valid command, then an unknown one
C18_Witness ==
    /\ ParseDone
    /\ Len(command_inputs) >= 2
    /\ ParseOne(command_inputs[1]).kind = "cmd"
    /\ ParseOne(command_inputs[2]).kind = "err"
    /\ ~result.ok
    /\ result.err.kind = "NoSuchCommand"

\* the command strings of a text, scanning left to right: a ';' followed by
\* a ';' is one literal ';', any other ';' ends the command string
RECURSIVE PairedSplit(_, _, _, _)
PairedSplit(s, i, string, strings) ==
    IF i > Len(s) THEN Append(strings, string)
    ELSE IF s[i] = ";" /\ i < Len(s) /\ s[i + 1] = ";"
    THEN PairedSplit(s, i + 2, Append(string, ";"), strings)
    ELSE IF s[i] = ";"
    THEN PairedSplit(s, i + 1, <<>>, Append(strings, string))
    ELSE PairedSplit(s, i + 1, Append(string, s[i]), strings)

EndsWithSeparator(s) ==
    LET strings == PairedSplit(s, 1, <<>>, <<>>)
    IN  s # <<>> /\ s[Len(s)] = ";" /\ strings[Len(strings)] = <<>>

\* C19: the tokenizer cuts the input at the ';' that are not paired, scanning
\* left to right, and turns each ';;' pair into one literal ';' of the
\* current command string; a separator at the very end opens no command
\* string.
C19_PairedSemicolons ==
    parse_pc \in {"tokenized", "done"} =>
        LET strings == PairedSplit(input, 1, <<>>, <<>>)
        IN  IF EndsWithSeparator(input)
            THEN Append(command_inputs, <<>>) = strings
            ELSE command_inputs = strings

\* ";;;stop": one literal ';', a separator, and the next command string
C19_Witness ==
    /\ parse_pc = "tokenized"
    /\ input = <<";", ";", ";">> \o W.stop
    /\ command_inputs = << <<";">>, W.stop >>

RECURSIVE Sevens(_)
Sevens(k) == IF k = 0 THEN <<>> ELSE <<"7">> \o Sevens(k - 1)

RECURSIVE SevensVal(_)
SevensVal(k) == IF k = 0 THEN 0 ELSE 10 * SevensVal(k - 1) + 7

RECURSIVE Spaces(_)
Spaces(k) == IF k = 0 THEN <<>> ELSE <<" ">> \o Spaces(k - 1)

Returns(commands) == result = [ok |-> TRUE, commands |-> commands, err |-> NoErr]

\* C20: "seek +n" yields Seek(Relative(n)), "seek -n" yields
\* Seek(Relative(-n)) and "seek n" yields Seek(Absolute(n)), alone in the
\* result; spaces between the sign and the digits change nothing; "seek"
\* without an argument yields InsufficientArgs.
C20_SeekSignAndTrim ==
    ParseDone =>
        /\ \A k \in 1..MaxPieces : \A sp \in 0..MaxPieces :
            LET digits == Spaces(sp) \o Sevens(k)
                n == SevensVal(k)
            IN  /\ input = W.seek \o <<" ", "+">> \o digits => Returns(<<SeekRelative(n)>>)
                /\ input = W.seek \o <<" ", "-">> \o digits => Returns(<<SeekRelative(0 - n)>>)
                /\ input = W.seek \o <<" ">> \o digits => Returns(<<SeekAbsolute(U32(n))>>)
        /\ input = W.seek \o <<" ">> =>
            result = [ok |-> FALSE, commands |-> <<>>, err |-> InsufficientArgs(W.seek, "a duration")]

\* "seek - 7"
C20_Witness ==
    /\ ParseDone
    /\ input = W.seek \o <<" ", "-", " ", "7">>
    /\ result.ok
    /\ result.commands = <<SeekRelative(-7)>>

\* the line is the command word w followed by the arguments args
Line(w, args) == input = join(<<w>> \o args)

\* parse returns the error e
Fails(e) == result = [ok |-> FALSE, commands |-> <<>>, err |-> e]

\* the magnitude of a returned Seek is within the i32 range
SeekWithinI32(c) ==
    c.name = "Seek" =>
        IF c.dir = "Relative" THEN c.ms <= I32Max /\ c.ms >= 0 - I32Max
        ELSE c.hi < 32768

\* the texts of the seek arguments above 2^31 - 1 that are u32 values
AboveI32 == {W.n2147483648, W.n4294967295}

\* C21 (as stated): every seek argument, signed or unsigned, whose magnitude
\* in milliseconds exceeds 2^31 - 1 gives ArgParseError, and no returned Seek
\* has a magnitude above 2^31 - 1.
C21_LargeSeekRejected ==
    ParseDone =>
        /\ \A n \in AboveI32 : \A sign \in {<<>>, <<"+">>, <<"-">>} :
               Line(W.seek, <<sign \o n>>) => Fails(ArgParseError(n))
        /\ \A k \in 1..Len(result.commands) : SeekWithinI32(result.commands[k])

\* C21 (amended): a signed seek argument whose magnitude exceeds 2^31 - 1
\* gives ArgParseError, and the largest one accepted is 2^31 - 1, so no
\* returned Seek(Relative) has a magnitude above 2^31 - 1; an unsigned
\* argument is returned as Seek(Absolute) for every value up to 2^32 - 1 and
\* gives ArgParseError only above that (when parse_duration rejects it too).
C21_SignedSeekRange ==
    ParseDone =>
        /\ \A sp \in {<<>>, <<" ">>} :
            /\ Line(W.seek, <<<<"+">> \o sp \o W.n2147483647>>)
                   => Returns(<<SeekRelative(I32Max)>>)
            /\ Line(W.seek, <<<<"-">> \o sp \o W.n2147483647>>)
                   => Returns(<<SeekRelative(0 - I32Max)>>)
            /\ \A n \in AboveI32 : \A sign \in {<<"+">>, <<"-">>} :
                   Line(W.seek, <<sign \o sp \o n>>) => Fails(ArgParseError(n))
            /\ \A sign \in {<<>>, <<"+">>, <<"-">>} :
                   (Line(W.seek, <<sign \o sp \o W.n4294967296>>) /\ ~fancy_ok)
                       => Fails(ArgParseError(W.n4294967296))
        /\ Line(W.seek, <<W.n2147483647>>) => Returns(<<SeekAbsolute([hi |-> 32767, lo |-> 65535])>>)
        /\ Line(W.seek, <<W.n2147483648>>) => Returns(<<SeekAbsolute([hi |-> 32768, lo |-> 0])>>)
        /\ Line(W.seek, <<W.n4294967295>>) => Returns(<<SeekAbsolute([hi |-> 65535, lo |-> 65535])>>)
        /\ \A k \in 1..Len(result.commands) :
               LET c == result.commands[k]
               IN  (c.name = "Seek" /\ c.dir = "Relative") => SeekWithinI32(c)

\* "seek - 4294967295" has been rejected
C21_Witness ==
    /\ ParseDone
    /\ Line(W.seek, <<<<"-">>, W.n4294967295>>)
    /\ Fails(ArgParseError(W.n4294967295))

\* the command word and the arguments of a line of one command string
WordOf(line) == Head(split_whitespace(line))

ArgsOf(line) == Tail(split_whitespace(line))

\* the commands with a required first enum argument, and its accepted values
RequiredEnumCommands == {W.open, W.similar, W.goto, W.shift, W.move, W.sort}

RequiredEnum(command) ==
    CASE command \in {W.open, W.similar} -> {W.selected, W.current}
      [] command = W.goto -> {W.album, W.artist}
      [] command = W.shift -> {W.up, W.down}
      [] command = W.move ->
             {W.playing, W.top, W.bottom, W.leftmost, W.rightmost, W.pageup,
              W.pagedown, W.pageleft, W.pageright, W.up, W.down, W.left, W.right}
      [] command = W.sort -> {W.title, W.duration, W.artist, W.album, W.added}

\* C22: for open, similar, goto, shift, move and sort a missing first
\* argument gives InsufficientArgs naming the command, and a first argument
\* that is not accepted gives BadEnumArg with that argument, the complete
\* list of accepted values and optional = false; no Command is returned in
\* either case.
C22_RequiredEnumArgument ==
    (ParseDone /\ WordOf(input) \in RequiredEnumCommands) =>
        LET command == WordOf(input)
            args == ArgsOf(input)
        IN  /\ args = <<>> =>
                /\ ~result.ok
                /\ result.commands = <<>>
                /\ result.err.kind = "InsufficientArgs"
                /\ result.err.cmd = command
            /\ (args # <<>> /\ args[1] \notin RequiredEnum(command)) =>
                /\ ~result.ok
                /\ result.commands = <<>>
                /\ result.err.kind = "BadEnumArg"
                /\ result.err.arg = args[1]
                /\ Range(result.err.accept) = RequiredEnum(command)
                /\ Len(result.err.accept) = Cardinality(RequiredEnum(command))
                /\ ~result.err.optional

\* "open album" has been rejected
C22_Witness ==
    /\ ParseDone
    /\ Line(W.open, <<W.album>>)
    /\ result.err.kind = "BadEnumArg"

\* the match rejects these arguments of the command with a BadEnumArg
IsBadEnum(command, args) ==
    LET r == ParseCommand(command, args)
    IN  r.kind = "err" /\ r.err.kind = "BadEnumArg"

\* the position of the argument a BadEnumArg is about: the first one at which
\* the arguments up to it are rejected
BadPosition(command, args) ==
    CHOOSE p \in 1..Len(args) :
        /\ IsBadEnum(command, SubSeq(args, 1, p))
        /\ \A q \in 1..(p - 1) : ~IsBadEnum(command, SubSeq(args, 1, q))

\* the words tried at an enum position
TriedWords == EnumWords \cup {W.n7, W.zz}

\* C23: every BadEnumArg has optional = true exactly when the line is valid
\* without the argument at that position (the repeat mode, the shuffle
\* switch and the sort direction) and optional = false otherwise, and its
\* accepted list holds exactly the values parse accepts at that position.
C23_OptionalFlagAndAcceptList ==
    (ParseDone /\ result.err.kind = "BadEnumArg") =>
        LET command == WordOf(input)
            args == ArgsOf(input)
            p == BadPosition(command, args)
            before == SubSeq(args, 1, p - 1)
        IN  /\ result.err.arg = args[p]
            /\ result.err.optional <=> ParseCommand(command, before).kind = "cmd"
            /\ result.err.optional <=>
                   \/ command \in {W.repeat, W.loop, W.shuffle} /\ p = 1
                   \/ command = W.sort /\ p = 2
            /\ Range(result.err.accept) \subseteq TriedWords
            /\ \A w \in TriedWords :
                   w \in Range(result.err.accept) <=> ~IsBadEnum(command, Append(before, w))

\* "sort title zz" has been rejected for its direction
C23_Witness ==
    /\ ParseDone
    /\ Line(W.sort, <<W.title, W.zz>>)
    /\ result.err.kind = "BadEnumArg"
    /\ result.err.optional

\* one Command of every variant
Variants ==
    {Command("Quit"), TogglePlay, Stop_, Command("Previous"), Command("Next"), Command("Clear"), Command("Queue"), Command("PlayNext"), Command("Play"),
     Command("UpdateLibrary"), Focus(W.queue), SeekRelative(7), SeekAbsolute(U32(7)),
     VolumeUp_(1), VolumeDown_(1), Repeat("None", "-"), Repeat("Some", "None"), Shuffle("None", "-"),
     Shuffle("Some", "true"), Command("Back"), Open("Selected"), Goto("Album"),
     Move("Up", "Integer", 1), Shift("Up", "None", 0), Search(<<>>), JumpQuery(<<>>),
     JumpNext, JumpPrevious, Command("Help"), Command("Noop"), Sort("Title", "Ascending"), Command("Logout"),
     ShowRecommendations("Selected"), Command("Redraw"), Execute(<<>>), Command("Reconnect")}

\* the variants that carry no argument
NoArgVariants ==
    {Command("Quit"), TogglePlay, Stop_, Command("Previous"), Command("Next"), Command("Clear"), Command("Queue"), Command("PlayNext"), Command("Play"),
     Command("UpdateLibrary"), Command("Back"), JumpNext, JumpPrevious, Command("Help"), Command("Noop"), Command("Logout"), Command("Redraw"),
     Command("Reconnect")}

\* the other words the grammar lists for a command name
Aliases(name) ==
    CASE name = W.quit -> {W.q, W.x}
      [] name = W.playpause -> {W.pause, W.toggleplay, W.toggleplayback}
      [] name = W.repeat -> {W.loop}
      [] OTHER -> {}

\* what parse returns for one command string
ParseLine(line) == ParseFrom(Tokenize(line), 1, NoCommands)

\* the basename of every variant, and its aliases
Basenames == [c \in Variants |-> basename(c)]

AliasesOf == [c \in Variants |-> Aliases(basename(c))]

\* C24: the basename of every Command variant is a command word parse
\* recognises (never NoSuchCommand); for a variant without arguments parsing
\* the basename alone returns exactly that command; the command a line parses
\* to is named by the word typed or has it as an alias, and an alias gives
\* the result its basename gives.
C24_BasenameRoundTrip ==
    ParseDone =>
        LET w == WordOf(input)
        IN  /\ \A c \in Variants :
                /\ w = Basenames[c] => result.err.kind # "NoSuchCommand"
                /\ w \in AliasesOf[c] =>
                       result = ParseLine(join(<<Basenames[c]>> \o ArgsOf(input)))
                /\ (c \in NoArgVariants /\ input = Basenames[c]) => Returns(<<c>>)
            /\ result.ok =>
                   LET c == result.commands[1]
                   IN  w = basename(c) \/ w \in Aliases(basename(c))

\* "toggleplayback" has been parsed to TogglePlay, whose basename is
\* "playpause"
C24_Witness ==
    /\ ParseDone
    /\ Line(W.toggleplayback, <<>>)
    /\ Returns(<<TogglePlay>>)
    /\ basename(result.commands[1]) = W.playpause

\* the cycle of the repeat settings
CycleNext(m) ==
    CASE m = "None" -> "RepeatPlaylist"
      [] m = "RepeatPlaylist" -> "RepeatTrack"
      [] m = "RepeatTrack" -> "None"

\* C25: "repeat" (or "loop") without an argument parses to Repeat(None)
\* whatever the queue's repeat setting is; each time that command is handled
\* the setting moves one step along None -> RepeatPlaylist -> RepeatTrack ->
\* None, so after three of them it is what it was.
C25_RepeatCycle ==
    (ParseDone /\ WordOf(input) \in {W.repeat, W.loop} /\ ArgsOf(input) = <<>>) =>
        /\ Returns(<<Repeat("None", "-")>>)
        /\ repeat = modes[Len(modes)]
        /\ \A k \in 1..(Len(modes) - 1) : modes[k + 1] = CycleNext(modes[k])
        /\ \A k \in 1..(Len(modes) - 3) : modes[k + 3] = modes[k]

\* "repeat" has been handled three times from RepeatTrack
C25_Witness ==
    /\ ParseDone
    /\ input = W.repeat
    /\ modes = <<"RepeatTrack", "None", "RepeatPlaylist", "RepeatTrack">>
    /\ repeat = "RepeatTrack"

\* max(0, p + delta) is the i32 value t; a sum above 2^31 - 1 is no i32
IsClampedSum(t, p, delta) ==
    IF delta > 0 /\ p > I32Max - delta THEN FALSE
    ELSE IF p + delta > 0 THEN t = p + delta ELSE t = 0

\* C26: seek_relative(delta) goes on to send one Seek(p) with
\* p = max(0, progress + delta), progress being get_current_progress() in
\* milliseconds at the call; for no delta is the target negative or wrapped.
C26_SeekRelativeTarget ==
    [][\A delta \in Deltas :
           seek_relative(delta) =>
               /\ uipc' = "sw_locked"
               /\ cur'.op = "Seek"
               /\ cur'.arg >= 0
               /\ IsClampedSum(cur'.arg, get_current_progress, delta)]_vars

\* a step of one of the calls that only send: the call itself, or the send
\* and the return of send_worker on its command
SendOnlyStep ==
    \/ load
    \/ play
    \/ pause
    \/ stop
    \/ \E p \in SeekArgs : seek(p)
    \/ \E d \in Deltas : seek_relative(d)
    \/ preload
    \/ \E cont \in {"idle", "logout_rm"} : shutdown(cont)
    \/ (SwSend \/ SwReturn) /\ cur.op # "SetVolume"

\* C27: load, play, pause, stop, seek, seek_relative, preload and shutdown
\* leave status, elapsed, since, volume and the inlet as they are; status and
\* position change only within update_status and update_track, the volume
\* only in set_volume, the inlet only in start_worker and at the end of a
\* worker.
C27_SendOnlyFrame ==
    [][/\ SendOnlyStep => UNCHANGED <<status, elapsed, since, volume, channel>>
       /\ <<status, elapsed, since>>' # <<status, elapsed, since>> =>
              \/ HandlePlayer
              \/ update_status_second
              \/ update_status_write
              \/ update_track
       /\ volume' # volume => set_volume(volume')
       /\ channel' # channel =>
              \/ channel' = nextWorker /\ nextWorker' = nextWorker + 1
              \/ channel' = None /\ \E w \in Workers : WClear(w)]_vars

\* the Seek of a call made while a pause at 1 ms is recorded has been sent
C27_Witness ==
    /\ uipc = "sw_sent"
    /\ cur.op = "Seek"
    /\ status = Paused(1)
    /\ elapsed = 1
    /\ since = None
    /\ Len(inbox[1]) > 0

\* no Player event waits in the event queue and none is being handled
PlayerEventsDrained ==
    /\ uipc = "idle"
    /\ \A i \in 1..Len(events) : events[i].kind # "Player"

\* C28: the event loop takes the events in the order of their arrival; a
\* Player event is given to update_status, which ends by storing it as the
\* status, and queue.next(false) is then called, once, exactly when the event
\* is FinishedTrack; a SessionDied starts exactly one worker; so once the
\* Player events are drained the status is the last Player event received.
C28_EventLoopOrder ==
    /\ [](PlayerEventsDrained /\ lastPlayer # NoEvent => get_current_status = lastPlayer)
    /\ [][/\ (events' # events /\ Len(events') <= Len(events)) =>
                (events # <<>> /\ events' = Tail(events))
          /\ (events # <<>> /\ events' = Tail(events)) =>
                IF Head(events).kind = "Player"
                THEN uipc' = "us_second" /\ ev' = Head(events).ev /\ nextWorker' = nextWorker
                ELSE uipc' = "idle" /\ channel' = nextWorker /\ nextWorker' = nextWorker + 1
          /\ (uipc = "us_status" /\ uipc' # uipc) =>
                /\ status' = ev
                /\ uipc' = IF ev = FinishedTrack THEN "queue_next" ELSE "idle"
          /\ (uipc' = "queue_next" /\ uipc # "queue_next") =>
                (uipc = "us_status" /\ ev = FinishedTrack)
          /\ (uipc = "queue_next" /\ uipc' # uipc) => uipc' = "idle"
          /\ nextWorker' # nextWorker =>
                (events # <<>> /\ Head(events).kind = "SessionDied")]_vars

\* two Player events and the SessionDied of worker 1 have been handled in
\* the order of their arrival, the last Player event being FinishedTrack
C28_Witness ==
    /\ events = <<>>
    /\ uipc = "idle"
    /\ lastPlayer = FinishedTrack
    /\ status = FinishedTrack
    /\ nextWorker = 3
    /\ channel = 2

\* C29: whenever the inlet is present, the worker it leads to is connecting
\* or in its run loop and holds the receiver (or has just left the run loop
\* and is about to set the inlet to absent); no worker ends, not even by a
\* failed connection, with its inlet still installed.
C29_InletHasWorker ==
    channel # None =>
        /\ rxAlive[channel]
        /\ wpc[channel] \in {"connecting", "running", "exited"}

\* C30: a worker that ends clears its own inlet only: an inlet that is
\* installed is never set to absent or replaced except by the worker it
\* leads to, whatever the order of worker exits, restarts and Shutdown
\* commands.
C30_ClearsOwnInlet ==
    [][/\ \A w \in Workers : WClear(w) => channel = w
       /\ (channel # None /\ channel' # channel) => WClear(channel)]_vars

\* the inlet of worker 2 is installed and worker 2 runs while the task of
\* worker 1 has not yet returned
C30_Witness ==
    /\ channel = 2
    /\ wpc[2] = "running"
    /\ wpc[1] = "sent"

====
